---- MODULE Spec2Model ----
(***************************************************************************)
(* A model of the storage layer of go-raid: the repository contract        *)
(* (internal/storage/repository.go) as implemented by the local-file       *)
(* driver (internal/storage/file/file.go), the FoundationDB driver         *)
(* (internal/storage/fdb) and the CockroachDB driver                       *)
(* (internal/storage/cockroach).                                           *)
(*                                                                         *)
(* One driver is selected when the store is constructed (storage           *)
(* registry); the variables of the other two drivers keep their initial    *)
(* value.  Spec runs the contract's operations one after another, each     *)
(* handler as one step.  SpecConc runs create and update calls of several  *)
(* request workers concurrently, a transaction's read and its commit being *)
(* separate steps.                                                         *)
(* SpecMint runs the service-point and identifier-generation operations    *)
(* one after another.                                                      *)
(***************************************************************************)
EXTENDS Integers, Sequences, FiniteSets, TLC

\* ------------------------------------------------------------------ bounds

\* Highest version number a pair reaches in the model (update is disabled
\* beyond it).
MaxVersion == 4

\* Number of concurrent request workers of SpecConc.
NumWorkers == 2

\* Number of service-point ids the model lets a backend generate.
MaxServicePoints == 2

\* Highest value of a RAiD suffix counter in the model.
MaxMints == 3

\* Highest value of the clock in the model.
MaxClock == 2

\* Number of calls in a run of SpecAll.
MaxRounds == 5

\* Highest value of a call counter of the handler's repository in SpecHttp.
MaxCalls == 2

\* ------------------------------------------------------------ the data model

Drivers == {"file", "fdb", "cockroach"}

\* (namespace, localId): prefix and suffix of https://raid.org/{prefix}/{suffix}
Prefixes == {"10.25.1.1"}
\* The suffixes in the order of their file names and of their keys.
SuffixOrder == <<"x">>
Suffixes == {SuffixOrder[i] : i \in DOMAIN SuffixOrder}
Pairs == Prefixes \X Suffixes

\* All pairs in path order (filepath.Walk) and key order (fdb tuple order).
PairOrder == [i \in DOMAIN SuffixOrder |-> <<"10.25.1.1", SuffixOrder[i]>>]

Versions == 1..MaxVersion

\* The payload documents a caller submits.  docA is an open-access record with
\* contributor c1, docB an embargoed one with organisation o1.
Bodies == {"docA", "docB"}

\* Identifier.Version as carried by a submitted payload (0: absent).
SubmittedVersions == {0, 2}

OpenAccessType == "https://vocabulary.raid.org/access.type.schema/82"

AccessTypeOf(body) == IF body = "docA" THEN OpenAccessType ELSE "embargoed"

ContributorsOf(body) == IF body = "docA" THEN {"c1"} ELSE {}

OrganisationsOf(body) == IF body = "docB" THEN {"o1"} ELSE {}

\* storage.ErrNotFound, storage.ErrAlreadyExists; "Error" is any other
\* (unclassified, wrapped-medium) error; "ok" is a nil error.
ErrNotFound == "NotFound"
ErrAlreadyExists == "AlreadyExists"
ErrOther == "Error"
Ok == "ok"

\* An absent file, key or row.
NoRec == [version |-> 0, body |-> "none"]

NoRow == [version |-> 0, body |-> "none", is_current |-> FALSE, is_deleted |-> FALSE]

RAiD(version, body) == [version |-> version, body |-> body]

\* The prefix generateIdentifier falls back to.
DefaultPrefix == "10.25.1.1"

\* ServicePoint.Prefix of a submitted service point ("": omitted).
SpPrefixes == {"", "10.7"}

\* The prefixes of the service points of SpecScope: two that differ in the
\* separator only.
ScopePrefixes == {"10.7", "10_7"}

\* The prefixes a generated identifier can carry.
MintPrefixes == {DefaultPrefix} \cup (SpPrefixes \ {""}) \cup ScopePrefixes

\* The characters of a prefix of the model.
Spell(prefix) ==
    CASE prefix = "10.25.1.1" -> <<"1", "0", ".", "2", "5", ".", "1", ".", "1">>
      [] prefix = "10.7" -> <<"1", "0", ".", "7">>
      [] prefix = "10_7" -> <<"1", "0", "_", "7">>

\* strings.ReplaceAll on the characters of a string.
ReplaceAll(s, old, new) == [i \in DOMAIN s |-> IF s[i] = old THEN new ELSE s[i]]

\* The counter key of a prefix in the fdb driver: the tuple ("raid", prefix).
counterKey(prefix) == <<"raid", prefix>>

\* The name of the id_counters row of a prefix in the sql driver:
\* fmt.Sprintf("raid_%s", strings.ReplaceAll(prefix, ".", "_")).
counterName(prefix) == <<"r", "a", "i", "d", "_">> \o ReplaceAll(Spell(prefix), ".", "_")

\* The counter keys and counter rows there can be.
CounterKeys ==
    {counterKey(prefix) : prefix \in MintPrefixes}
        \cup {counterName(prefix) : prefix \in MintPrefixes}

\* Where fs.idCounter starts and the floor of generateServicePointID.
IdCounterStart == 1000

\* ServicePoint.ID as carried by a submitted service point (0: unset).
SuppliedIDs == {0, 1, IdCounterStart, IdCounterStart + 1}

\* The ids under which a service point can be stored in the model.
SpKeys == (1..MaxServicePoints) \cup (IdCounterStart..(IdCounterStart + MaxServicePoints))

\* An absent service-point file, key or row.
NoSp == [present |-> FALSE, id |-> 0, prefix |-> ""]

ServicePoint(id, prefix) == [present |-> TRUE, id |-> id, prefix |-> prefix]

VARIABLES
    driver,     \* the backend selected at construction
    fsCur,      \* file: raids/<prefix>/<suffix>.json
    fsDel,      \* file: raids/<prefix>/<suffix>.json.deleted
    fsHist,     \* file: raids/<prefix>/.history/<suffix>/v<n>.json
    kvCur,      \* fdb: (prefix, suffix, "current")
    kvDel,      \* fdb: (prefix, suffix, "deleted")
    kvVer,      \* fdb: (prefix, suffix, "version", n)
    sqlRows,    \* sql: table raids, by primary key (prefix, suffix, version)
    last,       \* the call that completed last and what it returned
    life,       \* per pair, what has happened since its last successful create
    workers,    \* SpecConc: each request worker's call in progress
    base,       \* SpecConc: per pair, what was stored when the calls were issued
    issued,     \* SpecConc: per pair, the versions successful updates returned
    sps,        \* the stored service points: servicepoints/<id>.json, the
                \* servicePointDir key (id), the service_points row of key id
    spCounter,  \* fs.idCounter, the counter key "servicepoint_id", the SERIAL
                \* sequence of service_points.id
    raidCounter,\* per counter key, the counter key ("raid", prefix) and the
                \* id_counters row raid_<prefix> (0: absent)
    now,        \* the clock time.Now() reads
    mlast,      \* the service-point or identifier call that completed last
    minted,     \* the (prefix, suffix) results of the generateIdentifier calls,
                \* in the order of their return
    autoCommit, \* SpecGit: gs.gitEnabled && gs.autoCommit of the git overlay
    gitHead,    \* SpecGit: the message of the last commit in the data directory
    gitLast,    \* SpecGit: what the last call of the git overlay returned
    round,      \* SpecAll: the call being applied to the three drivers in
                \* turn, and the drivers it has been applied to
    outs,       \* SpecAll: per driver, what the last call returned
    mu,         \* SpecLock: fs.mu, the sync.RWMutex of the file driver
    running,    \* SpecLock: per worker, the FileStorage method it is inside
    resp,       \* SpecHttp: the request handled last and the response to it
    repoCalls,  \* SpecHttp: the call counters of the handler's repository
    created,    \* SpecMeta: per pair, Metadata.Created of the stored records
                \* and the created_at column of the rows
    named,      \* SpecIdent: per pair, Identifier.ID of the current record
                \* stored under it, as the parts between its slashes
    gitTree,    \* SpecGitConc: the files of the data directory as of the
                \* last commit
    gitLog,     \* SpecGitConc: the commits after the initial one, oldest first
    gitPend,    \* SpecGitConc: per worker, the message of the commit its
                \* call has still to make
    assigned    \* SpecRestart: the ids fs.idCounter handed out, in order

vars == <<driver, fsCur, fsDel, fsHist, kvCur, kvDel, kvVer, sqlRows, last, life,
          workers, base, issued, sps, spCounter, raidCounter, now, mlast, minted,
          autoCommit, gitHead, gitLast, round, outs, mu, running,
          resp, repoCalls, created, named, gitTree, gitLog, gitPend, assigned>>

concVars == <<workers, base, issued>>

mintVars == <<sps, spCounter, raidCounter, now, mlast, minted>>

raidVars == <<fsCur, fsDel, fsHist, kvCur, kvDel, kvVer, sqlRows, last, life>>

gitVars == <<autoCommit, gitHead, gitLast>>

\* The variables that only the specifications of one component use.
lockVars == <<mu, running>>

httpVars == <<resp, repoCalls>>

treeVars == <<gitTree, gitLog, gitPend>>

metaVars == <<created, named, treeVars, assigned>>

extVars == <<gitVars, round, outs, lockVars, httpVars, metaVars>>

fileVars == <<fsCur, fsDel, fsHist>>
fdbVars == <<kvCur, kvDel, kvVer>>

\* A completed service-point or identifier call: what was asked (the id named,
\* the prefix submitted) and what it returned (err; the id of the service
\* point; the prefix and suffix of the identifier).
MintCall(op, id, err, spID, prefix, suffix) ==
    [op |-> op, id |-> id, err |-> err, spID |-> spID, prefix |-> prefix, suffix |-> suffix]

NoMint == MintCall("none", 0, Ok, 0, "", 0)

NoCall == [op |-> "none", pair |-> <<"", "">>, err |-> Ok, version |-> 0, body |-> "none", sv |-> 0]

Call(op, p, err, version, body, sv) ==
    [op |-> op, pair |-> p, err |-> err, version |-> version, body |-> body, sv |-> sv]

\* life[p].n: number of successful updates since the last successful create
\* with no soft delete in between (-1: never created, or deleted since);
\* life[p].v0, life[p].b0: the version that create returned and the payload it
\* was given; life[p].deleted: a soft delete succeeded and no create succeeded
\* after it.
NoLife == [n |-> -1, v0 |-> 0, b0 |-> "none", deleted |-> FALSE]

Workers == 1..NumWorkers

\* A worker between calls.
Idle ==
    [pc |-> "idle", op |-> "none", pair |-> <<"", "">>, body |-> "none", sv |-> 0,
     read |-> NoRec, rows |-> [v \in Versions |-> NoRow], conflict |-> FALSE,
     err |-> Ok, version |-> 0]

\* The stores and the bookkeeping of the calls after construction.
InitStore ==
    /\ driver \in Drivers
    /\ fsCur = [p \in Pairs |-> NoRec]
    /\ fsDel = [p \in Pairs |-> NoRec]
    /\ fsHist = [p \in Pairs |-> [v \in Versions |-> NoRec]]
    /\ kvCur = [p \in Pairs |-> NoRec]
    /\ kvDel = [p \in Pairs |-> NoRec]
    /\ kvVer = [p \in Pairs |-> [v \in Versions |-> NoRec]]
    /\ sqlRows = [p \in Pairs |-> [v \in Versions |-> NoRow]]
    /\ last = NoCall
    /\ life = [p \in Pairs |-> NoLife]
    /\ workers = [w \in Workers |-> Idle]
    /\ base = [p \in Pairs |-> [current |-> 0, versions |-> {}]]
    /\ issued = [p \in Pairs |-> {}]
    /\ sps = [k \in SpKeys |-> NoSp]
    /\ spCounter = IF driver = "file" THEN IdCounterStart ELSE 0
    /\ raidCounter = [key \in CounterKeys |-> 0]
    /\ now = 1
    /\ mlast = NoMint
    /\ minted = <<>>

\* A git commit message: the operation, the pair and the version it names.
NoCommit == [op |-> "Initial commit", pair |-> <<"", "">>, version |-> 0]

\* What a call of the git overlay returned, and what became of its commit
\* ("none": no commit attempted).
NoGitCall == [op |-> "none", pair |-> <<"", "">>, err |-> Ok, version |-> 0, commit |-> "none"]

\* The git overlay is not in use.
GitIdle ==
    /\ autoCommit = TRUE
    /\ gitHead = NoCommit
    /\ gitLast = NoGitCall

\* A call as SpecAll hands it to each driver (op "none": no call yet).
NoReplay == [op |-> "none", pair |-> <<"", "">>, body |-> "none", sv |-> 0]

\* No call is being applied to the drivers in turn.
ReplayIdle ==
    /\ round = [call |-> NoReplay, done |-> {}, n |-> 0]
    /\ outs = [d \in Drivers |-> [err |-> Ok, version |-> 0]]

\* fs.mu unlocked (writer 0: no holder of the write lock) and no method running.
LockIdle ==
    /\ mu = [writer |-> 0, readers |-> {}]
    /\ running = [w \in Workers |-> "none"]

\* A handled request: the handler, the kind of body sent, the error the
\* repository returned ("uncalled": the repository was not called) and the
\* status written.
Response(handler, body, err, status) ==
    [handler |-> handler, body |-> body, err |-> err, status |-> status]

\* No request has been handled and the repository has not been called.
HttpIdle ==
    /\ resp = Response("none", "none", "uncalled", 0)
    /\ repoCalls = [CreateRAiD |-> 0, GetRAiD |-> 0, UpdateRAiD |-> 0, GetRAiDHistory |-> 0]

\* A point of time as time.Now() reads it: the microsecond and what is left
\* of the nanoseconds below it (at 0: no time).
Time(at, sub) == [at |-> at, sub |-> sub]

NoTime == Time(0, 0)

\* No record carries a creation time or an identifier, the git overlay has
\* made no commit and fs.idCounter has handed out no id.
MetaIdle ==
    /\ created = [p \in Pairs |->
                     [cur |-> NoTime,
                      ver |-> [v \in Versions |-> NoTime],
                      col |-> [v \in Versions |-> NoTime]]]
    /\ named = [p \in Pairs |-> <<>>]
    /\ gitTree = [cur |-> [p \in Pairs |-> NoRec],
                  del |-> [p \in Pairs |-> NoRec],
                  hist |-> [p \in Pairs |-> [v \in Versions |-> NoRec]]]
    /\ gitLog = <<>>
    /\ gitPend = [w \in Workers |-> NoCommit]
    /\ assigned = <<>>

Init == InitStore /\ GitIdle /\ ReplayIdle /\ LockIdle /\ HttpIdle /\ MetaIdle

\* What has happened to pair p since its last create, after a call ended.
LifeAfter(op, p, err, version, body) ==
    IF err # Ok THEN life
    ELSE IF op = "create"
         THEN [life EXCEPT ![p] = [n |-> 0, v0 |-> version, b0 |-> body, deleted |-> FALSE]]
    ELSE IF op = "update"
         THEN [life EXCEPT ![p].n = IF life[p].n >= 0 THEN life[p].n + 1 ELSE -1]
    ELSE [life EXCEPT ![p] = [n |-> -1, v0 |-> 0, b0 |-> "none", deleted |-> TRUE]]

\* The records of f (a function on Versions) that are present, by ascending
\* version, from version lo on.
RECURSIVE Ascending(_, _)
Ascending(f, lo) ==
    IF lo > MaxVersion THEN <<>>
    ELSE IF f[lo].version = 0 THEN Ascending(f, lo + 1)
    ELSE <<f[lo]>> \o Ascending(f, lo + 1)

\* The same by descending version, from version hi down.
RECURSIVE Descending(_, _)
Descending(f, hi) ==
    IF hi < 1 THEN <<>>
    ELSE IF f[hi].version = 0 THEN Descending(f, hi - 1)
    ELSE <<f[hi]>> \o Descending(f, hi - 1)

\* storage.RAiDFilter (a nil filter behaves as the all-zero one).
Filters ==
    [contributorID : {"", "c1"}, organisationID : {"", "o1"},
     limit : {0, 1, 2}, offset : {0, 1, 2}]

\* applyFilters (file.go and fdb.go hold the same function): keep the records
\* with the contributor and the organisation the filter names.
RECURSIVE applyFilters(_, _)
applyFilters(raids, filter) ==
    IF raids = <<>> THEN <<>>
    ELSE LET r == Head(raids)
             keep == /\ (filter.contributorID # "" =>
                            filter.contributorID \in ContributorsOf(r.raid.body))
                     /\ (filter.organisationID # "" =>
                            filter.organisationID \in OrganisationsOf(r.raid.body))
         IN (IF keep THEN <<r>> ELSE <<>>) \o applyFilters(Tail(raids), filter)

\* The pagination of FileStorage.ListRAiDs and FDBStorage.ListRAiDs.
Paginate(raids, filter) ==
    LET skipped == IF filter.offset > 0 /\ filter.offset < Len(raids)
                   THEN SubSeq(raids, filter.offset + 1, Len(raids))
                   ELSE raids
    IN IF filter.limit > 0 /\ filter.limit < Len(skipped)
       THEN SubSeq(skipped, 1, filter.limit)
       ELSE skipped

\* The open-access filter of ListPublicRAiDs (file.go and fdb.go).
RECURSIVE OnlyPublic(_)
OnlyPublic(raids) ==
    IF raids = <<>> THEN <<>>
    ELSE (IF AccessTypeOf(Head(raids).raid.body) = OpenAccessType
          THEN <<Head(raids)>> ELSE <<>>) \o OnlyPublic(Tail(raids))

\* The entries of cur (a function on Pairs) that are present, in PairOrder.
RECURSIVE CurrentEntries(_, _)
CurrentEntries(cur, i) ==
    IF i > Len(PairOrder) THEN <<>>
    ELSE (IF cur[PairOrder[i]] = NoRec THEN <<>>
          ELSE <<[pair |-> PairOrder[i], raid |-> cur[PairOrder[i]]]>>)
         \o CurrentEntries(cur, i + 1)

\* ------------------------------------------------------- local-file driver

\* FileStorage.loadRAiD / loadRAiDFromFile: the current file, or ErrNotFound.
loadRAiD(p) ==
    IF fsCur[p] = NoRec
    THEN [err |-> ErrNotFound, raid |-> NoRec]
    ELSE [err |-> Ok, raid |-> fsCur[p]]

\* The version CreateRAiD stores (all three drivers): 1 only when the payload
\* carries none.
CreateVersion(sv) == IF sv = 0 THEN 1 ELSE sv

\* FileStorage.CreateRAiD with an explicit identifier.
FileCreateRAiD(p, body, sv) ==
    /\ driver = "file"
    /\ IF fsCur[p] # NoRec
       THEN /\ last' = Call("create", p, ErrAlreadyExists, 0, body, sv)
            /\ UNCHANGED <<fsCur, life>>
       ELSE /\ fsCur' = [fsCur EXCEPT ![p] = RAiD(CreateVersion(sv), body)]
            /\ last' = Call("create", p, Ok, CreateVersion(sv), body, sv)
            /\ life' = LifeAfter("create", p, Ok, CreateVersion(sv), body)
    /\ UNCHANGED <<driver, fsDel, fsHist, fdbVars, sqlRows>>

\* An update that overwrites the current file without copying it into the
\* history directory first.
FileUpdateRAiD_NoHistory(p, body) ==
    /\ driver = "file"
    /\ LET existing == loadRAiD(p) IN
       IF existing.err # Ok
       THEN /\ last' = Call("update", p, existing.err, 0, body, 0)
            /\ UNCHANGED <<fsCur, life>>
       ELSE /\ existing.raid.version < MaxVersion
            /\ fsCur' = [fsCur EXCEPT ![p] = RAiD(existing.raid.version + 1, body)]
            /\ last' = Call("update", p, Ok, existing.raid.version + 1, body, 0)
            /\ life' = LifeAfter("update", p, Ok, 0, body)
    /\ UNCHANGED <<driver, fsDel, fsHist, fdbVars, sqlRows>>

\* FileStorage.UpdateRAiD: copy the current file into the history directory
\* under its own version, then overwrite the current file.
FileUpdateRAiD(p, body) ==
    /\ driver = "file"
    /\ LET existing == loadRAiD(p) IN
       IF existing.err # Ok
       THEN /\ last' = Call("update", p, existing.err, 0, body, 0)
            /\ UNCHANGED <<fsCur, fsHist, life>>
       ELSE /\ existing.raid.version < MaxVersion
            /\ fsHist' = [fsHist EXCEPT ![p][existing.raid.version] = existing.raid]
            /\ fsCur' = [fsCur EXCEPT ![p] = RAiD(existing.raid.version + 1, body)]
            /\ last' = Call("update", p, Ok, existing.raid.version + 1, body, 0)
            /\ life' = LifeAfter("update", p, Ok, 0, body)
    /\ UNCHANGED <<driver, fsDel, fdbVars, sqlRows>>

\* FileStorage.DeleteRAiD: os.Rename(<suffix>.json, <suffix>.json.deleted); a
\* missing source file is the error of os.Rename, not ErrNotFound.
FileDeleteRAiD(p) ==
    /\ driver = "file"
    /\ IF fsCur[p] = NoRec
       THEN /\ last' = Call("delete", p, ErrOther, 0, "none", 0)
            /\ UNCHANGED <<fsCur, fsDel, life>>
       ELSE /\ fsDel' = [fsDel EXCEPT ![p] = fsCur[p]]
            /\ fsCur' = [fsCur EXCEPT ![p] = NoRec]
            /\ last' = Call("delete", p, Ok, 0, "none", 0)
            /\ life' = LifeAfter("delete", p, Ok, 0, "none")
    /\ UNCHANGED <<driver, fsHist, fdbVars, sqlRows>>

\* FileStorage.GetRAiD
FileGetRAiD(p) == loadRAiD(p)

\* FileStorage.GetRAiDVersion: the current file when it has that version,
\* else the history file v<version>.json.
FileGetRAiDVersion(p, version) ==
    LET cur == loadRAiD(p) IN
    IF cur.err # Ok THEN [err |-> cur.err, raid |-> NoRec]
    ELSE IF cur.raid.version = version THEN cur
    ELSE IF version \notin Versions \/ fsHist[p][version] = NoRec
         THEN [err |-> ErrNotFound, raid |-> NoRec]
    ELSE [err |-> Ok, raid |-> fsHist[p][version]]

\* FileStorage.GetRAiDHistory: the current file first, then the history files
\* in the order of os.ReadDir (by file name: v1.json, v2.json, ...).
FileGetRAiDHistory(p) ==
    LET cur == loadRAiD(p) IN
    IF cur.err # Ok THEN [err |-> cur.err, raids |-> <<>>]
    ELSE [err |-> Ok, raids |-> <<cur.raid>> \o Ascending(fsHist[p], 1)]

\* FileStorage.loadAllRAiDs: every <suffix>.json outside .history, in the
\* order of filepath.Walk; a .json.deleted file does not end in .json.
loadAllRAiDs == CurrentEntries(fsCur, 1)

\* FileStorage.ListRAiDs
FileListRAiDs(filter) == Paginate(applyFilters(loadAllRAiDs, filter), filter)

\* FileStorage.ListPublicRAiDs: the open-access records of ListRAiDs(filter).
FileListPublicRAiDs(filter) == OnlyPublic(FileListRAiDs(filter))

\* ------------------------------------------------------ FoundationDB driver

\* A create that skips the read of the "current" key and writes over whatever
\* the pair holds.
FdbCreateRAiD_Overwrite(p, body, sv) ==
    /\ driver = "fdb"
    /\ kvCur' = [kvCur EXCEPT ![p] = RAiD(CreateVersion(sv), body)]
    /\ kvVer' = [kvVer EXCEPT ![p][CreateVersion(sv)] = RAiD(CreateVersion(sv), body)]
    /\ last' = Call("create", p, Ok, CreateVersion(sv), body, sv)
    /\ life' = LifeAfter("create", p, Ok, CreateVersion(sv), body)
    /\ UNCHANGED <<driver, kvDel, fileVars, sqlRows>>

\* A create that sets the "current" key and leaves out the "version" key.
FdbCreateRAiD_CurrentOnly(p, body, sv) ==
    /\ driver = "fdb"
    /\ IF kvCur[p] # NoRec
       THEN /\ last' = Call("create", p, ErrAlreadyExists, 0, body, sv)
            /\ UNCHANGED <<kvCur, life>>
       ELSE /\ kvCur' = [kvCur EXCEPT ![p] = RAiD(CreateVersion(sv), body)]
            /\ last' = Call("create", p, Ok, CreateVersion(sv), body, sv)
            /\ life' = LifeAfter("create", p, Ok, CreateVersion(sv), body)
    /\ UNCHANGED <<driver, kvDel, kvVer, fileVars, sqlRows>>

\* FDBStorage.CreateRAiD with an explicit identifier, its transaction run
\* without a conflict: read the "current" key, then set the "current" and the
\* "version" key together.
FdbCreateRAiD(p, body, sv) ==
    /\ driver = "fdb"
    /\ IF kvCur[p] # NoRec
       THEN /\ last' = Call("create", p, ErrAlreadyExists, 0, body, sv)
            /\ UNCHANGED <<kvCur, kvVer, life>>
       ELSE /\ kvCur' = [kvCur EXCEPT ![p] = RAiD(CreateVersion(sv), body)]
            /\ kvVer' = [kvVer EXCEPT ![p][CreateVersion(sv)] = RAiD(CreateVersion(sv), body)]
            /\ last' = Call("create", p, Ok, CreateVersion(sv), body, sv)
            /\ life' = LifeAfter("create", p, Ok, CreateVersion(sv), body)
    /\ UNCHANGED <<driver, kvDel, fileVars, sqlRows>>

\* An update that sets the "current" key and leaves out the "version" key.
FdbUpdateRAiD_NoVersionKey(p, body) ==
    /\ driver = "fdb"
    /\ IF kvCur[p] = NoRec
       THEN /\ last' = Call("update", p, ErrNotFound, 0, body, 0)
            /\ UNCHANGED <<kvCur, life>>
       ELSE /\ kvCur[p].version < MaxVersion
            /\ kvCur' = [kvCur EXCEPT ![p] = RAiD(kvCur[p].version + 1, body)]
            /\ last' = Call("update", p, Ok, kvCur[p].version + 1, body, 0)
            /\ life' = LifeAfter("update", p, Ok, 0, body)
    /\ UNCHANGED <<driver, kvDel, kvVer, fileVars, sqlRows>>

\* FDBStorage.UpdateRAiD, its transaction run without a conflict.
FdbUpdateRAiD(p, body) ==
    /\ driver = "fdb"
    /\ IF kvCur[p] = NoRec
       THEN /\ last' = Call("update", p, ErrNotFound, 0, body, 0)
            /\ UNCHANGED <<kvCur, kvVer, life>>
       ELSE /\ kvCur[p].version < MaxVersion
            /\ kvCur' = [kvCur EXCEPT ![p] = RAiD(kvCur[p].version + 1, body)]
            /\ kvVer' = [kvVer EXCEPT ![p][kvCur[p].version + 1] =
                                            RAiD(kvCur[p].version + 1, body)]
            /\ last' = Call("update", p, Ok, kvCur[p].version + 1, body, 0)
            /\ life' = LifeAfter("update", p, Ok, 0, body)
    /\ UNCHANGED <<driver, kvDel, fileVars, sqlRows>>

\* FDBStorage.DeleteRAiD: move the "current" key to the "deleted" key.
FdbDeleteRAiD(p) ==
    /\ driver = "fdb"
    /\ IF kvCur[p] = NoRec
       THEN /\ last' = Call("delete", p, ErrNotFound, 0, "none", 0)
            /\ UNCHANGED <<kvCur, kvDel, life>>
       ELSE /\ kvDel' = [kvDel EXCEPT ![p] = kvCur[p]]
            /\ kvCur' = [kvCur EXCEPT ![p] = NoRec]
            /\ last' = Call("delete", p, Ok, 0, "none", 0)
            /\ life' = LifeAfter("delete", p, Ok, 0, "none")
    /\ UNCHANGED <<driver, kvVer, fileVars, sqlRows>>

\* FDBStorage.GetRAiD: the "current" key.
FdbGetRAiD(p) ==
    IF kvCur[p] = NoRec
    THEN [err |-> ErrNotFound, raid |-> NoRec]
    ELSE [err |-> Ok, raid |-> kvCur[p]]

\* FDBStorage.GetRAiDVersion: the "version" key.
FdbGetRAiDVersion(p, version) ==
    IF version \notin Versions \/ kvVer[p][version] = NoRec
    THEN [err |-> ErrNotFound, raid |-> NoRec]
    ELSE [err |-> Ok, raid |-> kvVer[p][version]]

\* FDBStorage.GetRAiDHistory: a range read over the "version" keys, which the
\* store returns in key order (ascending version); no error when there is none.
FdbGetRAiDHistory(p) == [err |-> Ok, raids |-> Ascending(kvVer[p], 1)]

\* FDBStorage.ListRAiDs: the "current" keys in key order, filtered, paginated.
FdbListRAiDs(filter) ==
    Paginate(applyFilters(CurrentEntries(kvCur, 1), filter), filter)

\* FDBStorage.ListPublicRAiDs
FdbListPublicRAiDs(filter) == OnlyPublic(FdbListRAiDs(filter))

\* -------------------------------------------------------- CockroachDB driver

Row(version, body, cur, del) ==
    [version |-> version, body |-> body, is_current |-> cur, is_deleted |-> del]

\* The rows of pair p with is_current = true.
CurrentRows(p) == {v \in Versions : sqlRows[p][v].version # 0 /\ sqlRows[p][v].is_current}

\* UPDATE raids SET is_current = false WHERE prefix, suffix AND is_current = true
ClearCurrent(rows) ==
    [v \in Versions |-> IF rows[v].version # 0 THEN [rows[v] EXCEPT !.is_current = FALSE]
                        ELSE rows[v]]

\* CockroachStorage.CreateRAiD with an explicit identifier, its transaction
\* run alone: SELECT EXISTS(... is_current = true), then INSERT.
SqlCreateRAiD(p, body, sv) ==
    /\ driver = "cockroach"
    /\ IF CurrentRows(p) # {}
       THEN /\ last' = Call("create", p, ErrAlreadyExists, 0, body, sv)
            /\ UNCHANGED <<sqlRows, life>>
       ELSE IF sqlRows[p][CreateVersion(sv)].version # 0
       THEN /\ last' = Call("create", p, ErrOther, 0, body, sv)
            /\ UNCHANGED <<sqlRows, life>>
       ELSE /\ sqlRows' = [sqlRows EXCEPT ![p][CreateVersion(sv)] =
                               Row(CreateVersion(sv), body, TRUE, FALSE)]
            /\ last' = Call("create", p, Ok, CreateVersion(sv), body, sv)
            /\ life' = LifeAfter("create", p, Ok, CreateVersion(sv), body)
    /\ UNCHANGED <<driver, fileVars, fdbVars>>

\* CockroachStorage.UpdateRAiD, its transaction run alone: SELECT the row with
\* is_current = true (deleted or not), clear is_current, INSERT version + 1
\* (is_deleted takes its default, false).
SqlUpdateRAiD(p, body) ==
    /\ driver = "cockroach"
    /\ IF CurrentRows(p) = {}
       THEN /\ last' = Call("update", p, ErrNotFound, 0, body, 0)
            /\ UNCHANGED <<sqlRows, life>>
       ELSE \E currentVersion \in CurrentRows(p) :
            /\ currentVersion < MaxVersion
            /\ IF sqlRows[p][currentVersion + 1].version # 0
               THEN /\ last' = Call("update", p, ErrOther, 0, body, 0)
                    /\ UNCHANGED <<sqlRows, life>>
               ELSE /\ sqlRows' = [sqlRows EXCEPT ![p] =
                                       [ClearCurrent(sqlRows[p]) EXCEPT ![currentVersion + 1] =
                                            Row(currentVersion + 1, body, TRUE, FALSE)]]
                    /\ last' = Call("update", p, Ok, currentVersion + 1, body, 0)
                    /\ life' = LifeAfter("update", p, Ok, 0, body)
    /\ UNCHANGED <<driver, fileVars, fdbVars>>

\* CockroachStorage.DeleteRAiD: UPDATE raids SET is_deleted = true WHERE
\* prefix, suffix AND is_current = true; ErrNotFound when no row was affected.
SqlDeleteRAiD(p) ==
    /\ driver = "cockroach"
    /\ IF CurrentRows(p) = {}
       THEN /\ last' = Call("delete", p, ErrNotFound, 0, "none", 0)
            /\ UNCHANGED <<sqlRows, life>>
       ELSE /\ sqlRows' = [sqlRows EXCEPT ![p] =
                               [v \in Versions |->
                                   IF v \in CurrentRows(p)
                                   THEN [sqlRows[p][v] EXCEPT !.is_deleted = TRUE]
                                   ELSE sqlRows[p][v]]]
            /\ last' = Call("delete", p, Ok, 0, "none", 0)
            /\ life' = LifeAfter("delete", p, Ok, 0, "none")
    /\ UNCHANGED <<driver, fileVars, fdbVars>>

RowRAiD(row) == RAiD(row.version, row.body)

\* CockroachStorage.GetRAiD: the row with is_current = true AND is_deleted = false.
SqlGetRAiD(p) ==
    LET live == {v \in CurrentRows(p) : ~sqlRows[p][v].is_deleted} IN
    IF live = {} THEN [err |-> ErrNotFound, raid |-> NoRec]
    ELSE [err |-> Ok, raid |-> RowRAiD(sqlRows[p][CHOOSE v \in live : TRUE])]

\* CockroachStorage.GetRAiDVersion: the row of that version, whatever its flags.
SqlGetRAiDVersion(p, version) ==
    IF version \notin Versions \/ sqlRows[p][version].version = 0
    THEN [err |-> ErrNotFound, raid |-> NoRec]
    ELSE [err |-> Ok, raid |-> RowRAiD(sqlRows[p][version])]

\* CockroachStorage.GetRAiDHistory: every row of the pair ORDER BY version DESC;
\* no error when there is none.
SqlGetRAiDHistory(p) ==
    [err |-> Ok,
     raids |-> Descending([v \in Versions |-> RowRAiD(sqlRows[p][v])], MaxVersion)]

\* A list query that selects on is_current = true alone.
SqlLiveEntries_WithDeleted ==
    {[pair |-> p, raid |-> RowRAiD(sqlRows[p][v])] :
        <<p, v>> \in {pv \in Pairs \X Versions : pv[2] \in CurrentRows(pv[1])}}

\* The rows a list query selects: is_current = true AND is_deleted = false.
SqlLiveEntries ==
    {[pair |-> p, raid |-> RowRAiD(sqlRows[p][v])] :
        <<p, v>> \in {pv \in Pairs \X Versions :
                        /\ pv[2] \in CurrentRows(pv[1])
                        /\ ~sqlRows[pv[1]][pv[2]].is_deleted}}

\* Every order in which a query without ORDER BY may return the rows of S.
Orderings(S) ==
    {s \in [1..Cardinality(S) -> S] : \A i, j \in 1..Cardinality(S) : i # j => s[i] # s[j]}

\* LIMIT and OFFSET of the SQL queries: skip offset rows, then keep limit rows.
SqlPage(rows, filter) ==
    LET from == filter.offset + 1
        to == IF filter.limit > 0 /\ filter.offset + filter.limit < Len(rows)
              THEN filter.offset + filter.limit ELSE Len(rows)
    IN SubSeq(rows, from, to)

\* CockroachStorage.ListRAiDs: the possible results (the query has no ORDER BY).
SqlListRAiDs(filter) ==
    LET match == {r \in SqlLiveEntries :
                    /\ (filter.contributorID # "" =>
                           filter.contributorID \in ContributorsOf(r.raid.body))
                    /\ (filter.organisationID # "" =>
                           filter.organisationID \in OrganisationsOf(r.raid.body))}
    IN {SqlPage(s, filter) : s \in Orderings(match)}

\* CockroachStorage.ListPublicRAiDs: the open-access rows, LIMIT and OFFSET
\* (the query reads neither contributorID nor organisationID).
SqlListPublicRAiDs(filter) ==
    LET match == {r \in SqlLiveEntries : AccessTypeOf(r.raid.body) = OpenAccessType}
    IN {SqlPage(s, filter) : s \in Orderings(match)}

\* ------------------------------------------------- the repository contract

\* Repository.GetRAiD of the selected driver.
GetRAiD(p) ==
    CASE driver = "file" -> FileGetRAiD(p)
      [] driver = "fdb" -> FdbGetRAiD(p)
      [] OTHER -> SqlGetRAiD(p)

\* Repository.GetRAiDVersion of the selected driver.
GetRAiDVersion(p, version) ==
    CASE driver = "file" -> FileGetRAiDVersion(p, version)
      [] driver = "fdb" -> FdbGetRAiDVersion(p, version)
      [] OTHER -> SqlGetRAiDVersion(p, version)

\* Repository.GetRAiDHistory of the selected driver.
GetRAiDHistory(p) ==
    CASE driver = "file" -> FileGetRAiDHistory(p)
      [] driver = "fdb" -> FdbGetRAiDHistory(p)
      [] OTHER -> SqlGetRAiDHistory(p)

\* Repository.ListRAiDs of the selected driver: the set of possible results.
ListRAiDs(filter) ==
    CASE driver = "file" -> {FileListRAiDs(filter)}
      [] driver = "fdb" -> {FdbListRAiDs(filter)}
      [] OTHER -> SqlListRAiDs(filter)

\* Repository.ListPublicRAiDs of the selected driver: the possible results.
ListPublicRAiDs(filter) ==
    CASE driver = "file" -> {FileListPublicRAiDs(filter)}
      [] driver = "fdb" -> {FdbListPublicRAiDs(filter)}
      [] OTHER -> SqlListPublicRAiDs(filter)

\* One contract call after another, each handler as one step.
Next ==
    \/ \E p \in Pairs, body \in Bodies, sv \in SubmittedVersions :
           FileCreateRAiD(p, body, sv) /\ UNCHANGED <<concVars, mintVars, extVars>>
    \/ \E p \in Pairs, body \in Bodies : FileUpdateRAiD(p, body) /\ UNCHANGED <<concVars, mintVars, extVars>>
    \/ \E p \in Pairs : FileDeleteRAiD(p) /\ UNCHANGED <<concVars, mintVars, extVars>>
    \/ \E p \in Pairs, body \in Bodies, sv \in SubmittedVersions :
           FdbCreateRAiD(p, body, sv) /\ UNCHANGED <<concVars, mintVars, extVars>>
    \/ \E p \in Pairs, body \in Bodies : FdbUpdateRAiD(p, body) /\ UNCHANGED <<concVars, mintVars, extVars>>
    \/ \E p \in Pairs : FdbDeleteRAiD(p) /\ UNCHANGED <<concVars, mintVars, extVars>>
    \/ \E p \in Pairs, body \in Bodies, sv \in SubmittedVersions :
           SqlCreateRAiD(p, body, sv) /\ UNCHANGED <<concVars, mintVars, extVars>>
    \/ \E p \in Pairs, body \in Bodies : SqlUpdateRAiD(p, body) /\ UNCHANGED <<concVars, mintVars, extVars>>
    \/ \E p \in Pairs : SqlDeleteRAiD(p) /\ UNCHANGED <<concVars, mintVars, extVars>>

Spec == Init /\ [][Next]_vars

\* ------------------------------------------------------ concurrent callers

Ops == {"create", "update"}

\* A worker that has issued a call.
Issued(pcv, op, p, body, sv) ==
    [Idle EXCEPT !.pc = pcv, !.op = op, !.pair = p, !.body = body,
                 !.sv = IF op = "create" THEN sv ELSE 0]

\* The versions successful updates have returned, after worker w's call ended
\* as the call c.
IssuedAfter(c) ==
    IF c.op = "update" /\ c.err = Ok
    THEN [issued EXCEPT ![c.pair] = @ \cup {c.version}]
    ELSE issued

\* Worker w's call has returned what the call c says.
Return(w, c) ==
    /\ workers' = [workers EXCEPT ![w].pc = "done", ![w].err = c.err,
                                  ![w].version = c.version]
    /\ issued' = IssuedAfter(c)

\* The calls of one round cannot take the pair beyond MaxVersion.
RoomFor(p, op) == op = "update" => base[p].current + NumWorkers <= MaxVersion

\* FileStorage.CreateRAiD / UpdateRAiD under fs.mu.Lock(): the whole handler
\* runs while no other does.
FileCall(w, p, op, body, sv) ==
    /\ driver = "file"
    /\ workers[w].pc = "idle"
    /\ RoomFor(p, op)
    /\ \/ op = "create" /\ FileCreateRAiD(p, body, sv)
       \/ op = "update" /\ sv = 0 /\ FileUpdateRAiD(p, body)
    /\ workers' = [workers EXCEPT ![w] =
                      [Issued("done", op, p, body, sv) EXCEPT !.err = last'.err,
                                                              !.version = last'.version]]
    /\ issued' = IssuedAfter(last')
    /\ UNCHANGED base

\* FDBStorage.CreateRAiD / UpdateRAiD up to db.Transact: the call is issued.
FdbCall(w, p, op, body, sv) ==
    /\ driver = "fdb"
    /\ workers[w].pc = "idle"
    /\ RoomFor(p, op)
    /\ op = "update" => sv = 0
    /\ workers' = [workers EXCEPT ![w] = Issued("read", op, p, body, sv)]
    /\ UNCHANGED <<driver, fileVars, fdbVars, sqlRows, last, life, base, issued>>

\* The transaction function of db.Transact up to its read of the "current"
\* key: ErrAlreadyExists (create) or ErrNotFound (update) ends the call, else
\* the writes are buffered until the commit.
FdbRead(w) ==
    /\ driver = "fdb"
    /\ workers[w].pc = "read"
    /\ LET me == workers[w] IN
       IF me.op = "create" /\ kvCur[me.pair] # NoRec
       THEN FdbCreateRAiD(me.pair, me.body, me.sv) /\ Return(w, last')
       ELSE IF me.op = "update" /\ kvCur[me.pair] = NoRec
       THEN FdbUpdateRAiD(me.pair, me.body) /\ Return(w, last')
       ELSE /\ workers' = [workers EXCEPT ![w].pc = "commit", ![w].read = kvCur[me.pair]]
            /\ UNCHANGED <<driver, fileVars, fdbVars, sqlRows, last, life, issued>>
    /\ UNCHANGED base

\* A commit that applies the buffered writes without the conflict check, so
\* that what was read may be stale.
FdbCommit_NoConflictCheck(w) ==
    /\ driver = "fdb"
    /\ workers[w].pc = "commit"
    /\ LET me == workers[w]
           version == IF me.op = "create" THEN CreateVersion(me.sv) ELSE me.read.version + 1
       IN  /\ kvCur' = [kvCur EXCEPT ![me.pair] = RAiD(version, me.body)]
           /\ kvVer' = [kvVer EXCEPT ![me.pair][version] = RAiD(version, me.body)]
           /\ last' = Call(me.op, me.pair, Ok, version, me.body, me.sv)
           /\ life' = LifeAfter(me.op, me.pair, Ok, version, me.body)
           /\ Return(w, last')
    /\ UNCHANGED <<driver, kvDel, fileVars, sqlRows, base>>

\* The commit of db.Transact: when the "current" key was written since it was
\* read the commit fails with a conflict and db.Transact runs the transaction
\* function again; else the buffered writes take effect.
FdbCommit(w) ==
    /\ driver = "fdb"
    /\ workers[w].pc = "commit"
    /\ LET me == workers[w] IN
       IF kvCur[me.pair] # me.read
       THEN /\ workers' = [workers EXCEPT ![w].pc = "read", ![w].conflict = TRUE]
            /\ UNCHANGED <<driver, fileVars, fdbVars, sqlRows, last, life, issued>>
       ELSE /\ \/ me.op = "create" /\ FdbCreateRAiD(me.pair, me.body, me.sv)
               \/ me.op = "update" /\ FdbUpdateRAiD(me.pair, me.body)
            /\ Return(w, last')
    /\ UNCHANGED base

\* CockroachStorage.CreateRAiD / UpdateRAiD up to cs.db.BeginTx.
SqlCall(w, p, op, body, sv) ==
    /\ driver = "cockroach"
    /\ workers[w].pc = "idle"
    /\ RoomFor(p, op)
    /\ op = "update" => sv = 0
    /\ workers' = [workers EXCEPT ![w] = Issued("read", op, p, body, sv)]
    /\ UNCHANGED <<driver, fileVars, fdbVars, sqlRows, last, life, base, issued>>

\* The SELECT of the transaction: ErrAlreadyExists (create) or ErrNotFound
\* (update) ends the call with a rollback, else the transaction goes on.
SqlRead(w) ==
    /\ driver = "cockroach"
    /\ workers[w].pc = "read"
    /\ LET me == workers[w] IN
       IF me.op = "create" /\ CurrentRows(me.pair) # {}
       THEN SqlCreateRAiD(me.pair, me.body, me.sv) /\ Return(w, last')
       ELSE IF me.op = "update" /\ CurrentRows(me.pair) = {}
       THEN SqlUpdateRAiD(me.pair, me.body) /\ Return(w, last')
       ELSE /\ workers' = [workers EXCEPT ![w].pc = "commit", ![w].rows = sqlRows[me.pair]]
            /\ UNCHANGED <<driver, fileVars, fdbVars, sqlRows, last, life, issued>>
    /\ UNCHANGED base

\* The UPDATE, INSERT and tx.Commit of the transaction under the database's
\* SERIALIZABLE isolation: when another transaction has committed a write to
\* the pair's rows since the SELECT, the statement or the commit fails (a
\* duplicate key or a restart error), the handler returns that error wrapped
\* and the deferred tx.Rollback discards the writes; the handler does not retry.
SqlCommit(w) ==
    /\ driver = "cockroach"
    /\ workers[w].pc = "commit"
    /\ LET me == workers[w] IN
       IF sqlRows[me.pair] # me.rows
       THEN /\ last' = Call(me.op, me.pair, ErrOther, 0, me.body, me.sv)
            /\ workers' = [workers EXCEPT ![w].pc = "done", ![w].conflict = TRUE,
                                          ![w].err = ErrOther]
            /\ UNCHANGED <<driver, fileVars, fdbVars, sqlRows, life, issued>>
       ELSE /\ \/ me.op = "create" /\ SqlCreateRAiD(me.pair, me.body, me.sv)
               \/ me.op = "update" /\ SqlUpdateRAiD(me.pair, me.body)
            /\ Return(w, last')
    /\ UNCHANGED base

\* The versions getHistory returns for pair p.
HistoryVersions(p) ==
    {GetRAiDHistory(p).raids[i].version : i \in DOMAIN GetRAiDHistory(p).raids}

\* Every call has returned: the workers take their next requests.
StartRound ==
    /\ \A w \in Workers : workers[w].pc = "done"
    /\ workers' = [w \in Workers |-> Idle]
    /\ base' = [p \in Pairs |->
                   [current |-> IF GetRAiD(p).err = Ok THEN GetRAiD(p).raid.version ELSE 0,
                    versions |-> HistoryVersions(p)]]
    /\ UNCHANGED <<driver, fileVars, fdbVars, sqlRows, last, life, issued>>

\* Concurrent create and update calls, one per worker and round.
NextConc ==
    \/ \E w \in Workers, p \in Pairs, op \in Ops, body \in Bodies, sv \in SubmittedVersions :
           FileCall(w, p, op, body, sv) /\ UNCHANGED <<mintVars, extVars>>
    \/ \E w \in Workers, p \in Pairs, op \in Ops, body \in Bodies, sv \in SubmittedVersions :
           FdbCall(w, p, op, body, sv) /\ UNCHANGED <<mintVars, extVars>>
    \/ \E w \in Workers : FdbRead(w) /\ UNCHANGED <<mintVars, extVars>>
    \/ \E w \in Workers : FdbCommit(w) /\ UNCHANGED <<mintVars, extVars>>
    \/ \E w \in Workers, p \in Pairs, op \in Ops, body \in Bodies, sv \in SubmittedVersions :
           SqlCall(w, p, op, body, sv) /\ UNCHANGED <<mintVars, extVars>>
    \/ \E w \in Workers : SqlRead(w) /\ UNCHANGED <<mintVars, extVars>>
    \/ \E w \in Workers : SqlCommit(w) /\ UNCHANGED <<mintVars, extVars>>
    \/ StartRound /\ UNCHANGED <<mintVars, extVars>>

SpecConc == Init /\ [][NextConc]_vars

\* ------------------------------------------- service points and identifiers

\* loadServicePoint / GetServicePoint: the service point stored under id.
GetServicePoint(id) ==
    IF id \in SpKeys /\ sps[id].present
    THEN [err |-> Ok, sp |-> sps[id]]
    ELSE [err |-> ErrNotFound, sp |-> NoSp]

\* The first lines of generateIdentifier, the same in the three drivers: the
\* prefix of the service point named, when it loads and has one; else the
\* default prefix.
ResolvePrefix(servicePointID) ==
    IF servicePointID > 0
          /\ GetServicePoint(servicePointID).err = Ok
          /\ GetServicePoint(servicePointID).sp.prefix # ""
    THEN GetServicePoint(servicePointID).sp.prefix
    ELSE DefaultPrefix

\* What a generateIdentifier call that returned (prefix, suffix) leaves.
Minted(servicePointID, prefix, suffix) ==
    /\ mlast' = MintCall("generate", servicePointID, Ok, 0, prefix, suffix)
    /\ minted' = Append(minted, <<prefix, suffix>>)

\* What a CreateServicePoint call leaves that stored the service point under
\* key, or found the key taken.
StoreServicePoint(id, key, prefix) ==
    IF sps[key].present
    THEN /\ mlast' = MintCall("createSP", id, ErrAlreadyExists, 0, prefix, 0)
         /\ UNCHANGED sps
    ELSE /\ sps' = [sps EXCEPT ![key] = ServicePoint(key, prefix)]
         /\ mlast' = MintCall("createSP", id, Ok, key, prefix, 0)

\* FileStorage.CreateServicePoint: fs.idCounter++ when the id is unset, then
\* os.Stat of the file, then the write.
FileCreateServicePoint(id, prefix) ==
    /\ driver = "file"
    /\ id = 0 => spCounter < IdCounterStart + MaxServicePoints
    /\ spCounter' = IF id = 0 THEN spCounter + 1 ELSE spCounter
    /\ StoreServicePoint(id, IF id = 0 THEN spCounter + 1 ELSE id, prefix)
    /\ UNCHANGED <<driver, raidVars, concVars, raidCounter, now, minted>>

\* FDBStorage.generateServicePointID on the counter value the atomic add
\* left: a value below 1000 is replaced by 1000.
generateServicePointID(counter) ==
    IF counter < IdCounterStart THEN IdCounterStart ELSE counter

\* FDBStorage.CreateServicePoint: generateServicePointID in a transaction of
\* its own when the id is unset, then the check and the write in one
\* transaction.
FdbCreateServicePoint(id, prefix) ==
    /\ driver = "fdb"
    /\ id = 0 => spCounter < MaxServicePoints
    /\ spCounter' = IF id = 0 THEN spCounter + 1 ELSE spCounter
    /\ StoreServicePoint(id, IF id = 0 THEN generateServicePointID(spCounter + 1) ELSE id,
                         prefix)
    /\ UNCHANGED <<driver, raidVars, concVars, raidCounter, now, minted>>

\* CockroachStorage.CreateServicePoint: INSERT (data) RETURNING id; the row's
\* id is the next value of the SERIAL column whatever id the caller
\* submitted, and data holds the service point as submitted.
SqlCreateServicePoint(id, prefix) ==
    /\ driver = "cockroach"
    /\ spCounter < MaxServicePoints
    /\ spCounter' = spCounter + 1
    /\ sps' = [sps EXCEPT ![spCounter + 1] = ServicePoint(id, prefix)]
    /\ mlast' = MintCall("createSP", id, Ok, spCounter + 1, prefix, 0)
    /\ UNCHANGED <<driver, raidVars, concVars, raidCounter, now, minted>>

\* FileStorage.generateIdentifier: the suffix is time.Now().UnixNano().  It is
\* called under fs.mu by CreateRAiD and without a lock by GenerateIdentifier.
FileGenerateIdentifier(servicePointID) ==
    /\ driver = "file"
    /\ Len(minted) < MaxMints
    /\ Minted(servicePointID, ResolvePrefix(servicePointID), now)
    /\ UNCHANGED <<driver, raidVars, concVars, sps, spCounter, raidCounter, now>>

\* The clock advances.  Calls between two advances read the same time: calls
\* that run concurrently, or within the resolution of the clock.
Tick ==
    /\ driver = "file"
    /\ now < MaxClock
    /\ now' = now + 1
    /\ UNCHANGED <<driver, raidVars, concVars, sps, spCounter, raidCounter, mlast, minted>>

\* A GenerateIdentifier that reads the counter key and does not add to it.
FdbGenerateIdentifier_NoAdd(servicePointID) ==
    /\ driver = "fdb"
    /\ Len(minted) < MaxMints
    /\ Minted(servicePointID, ResolvePrefix(servicePointID),
              raidCounter[counterKey(ResolvePrefix(servicePointID))] + 1)
    /\ UNCHANGED <<driver, raidVars, concVars, sps, spCounter, raidCounter, now>>

\* FDBStorage.GenerateIdentifier: atomic add of 1 to the counter key
\* ("raid", prefix) and read of the new value in one transaction.
FdbGenerateIdentifier(servicePointID) ==
    /\ driver = "fdb"
    /\ LET prefix == ResolvePrefix(servicePointID) IN
       /\ raidCounter[counterKey(prefix)] < MaxMints
       /\ raidCounter' = [raidCounter EXCEPT ![counterKey(prefix)] = @ + 1]
       /\ Minted(servicePointID, prefix, raidCounter[counterKey(prefix)] + 1)
    /\ UNCHANGED <<driver, raidVars, concVars, sps, spCounter, now>>

\* CockroachStorage.GenerateIdentifier: INSERT (name, 1) ON CONFLICT DO
\* NOTHING, then UPDATE value = value + 1 RETURNING value, in one transaction.
SqlGenerateIdentifier(servicePointID) ==
    /\ driver = "cockroach"
    /\ LET prefix == ResolvePrefix(servicePointID)
           value == IF raidCounter[counterName(prefix)] = 0
                    THEN 1 ELSE raidCounter[counterName(prefix)]
       IN  /\ value < MaxMints
           /\ raidCounter' = [raidCounter EXCEPT ![counterName(prefix)] = value + 1]
           /\ Minted(servicePointID, prefix, value + 1)
    /\ UNCHANGED <<driver, raidVars, concVars, sps, spCounter, now>>

\* The service points a generateIdentifier call can name (0: none).
NamedIDs == {0} \cup SpKeys

\* The service-point and identifier operations, one call after another.
NextMint ==
    \/ \E id \in SuppliedIDs, prefix \in SpPrefixes : FileCreateServicePoint(id, prefix) /\ UNCHANGED extVars
    \/ \E id \in SuppliedIDs, prefix \in SpPrefixes : FdbCreateServicePoint(id, prefix) /\ UNCHANGED extVars
    \/ \E id \in SuppliedIDs, prefix \in SpPrefixes : SqlCreateServicePoint(id, prefix) /\ UNCHANGED extVars
    \/ \E servicePointID \in NamedIDs : FileGenerateIdentifier(servicePointID) /\ UNCHANGED extVars
    \/ \E servicePointID \in NamedIDs : FdbGenerateIdentifier(servicePointID) /\ UNCHANGED extVars
    \/ \E servicePointID \in NamedIDs : SqlGenerateIdentifier(servicePointID) /\ UNCHANGED extVars
    \/ Tick /\ UNCHANGED extVars

SpecMint == Init /\ [][NextMint]_vars

\* ------------------------------------------------------------------ claims

storeVars == <<fileVars, fdbVars, sqlRows>>

\* No record of the list result raids belongs to pair p.
Omits(raids, p) == \A i \in DOMAIN raids : raids[i].pair # p

\* C1: a successful createRecord followed immediately by getCurrent returns a
\* record with version 1, not deleted, and the submitted payload, whatever
\* version number the submitted payload carried.
C1_CreateThenGetCurrent ==
    (last.op = "create" /\ last.err = Ok) =>
        /\ GetRAiD(last.pair).err = Ok
        /\ GetRAiD(last.pair).raid.version = 1
        /\ GetRAiD(last.pair).raid.body = last.body

\* C2: after createRecord and N successful updates of the pair, getHistory
\* returns exactly N+1 records with the versions N+1, N, ..., 1 in that order
\* and getCurrent returns version N+1 (stated for a create whose payload
\* carried no version of its own, so that it returned version 1).
C2_HistoryDescending ==
    \A p \in Pairs :
        (life[p].n >= 0 /\ life[p].v0 = 1) =>
            /\ GetRAiDHistory(p).err = Ok
            /\ Len(GetRAiDHistory(p).raids) = life[p].n + 1
            /\ \A i \in 1..(life[p].n + 1) :
                   GetRAiDHistory(p).raids[i].version = life[p].n + 2 - i
            /\ GetRAiD(p).err = Ok
            /\ GetRAiD(p).raid.version = life[p].n + 1

\* C3: a createRecord on a pair that has a current record fails with
\* AlreadyExists and leaves everything stored as it was.
C3_DuplicateCreateRejected ==
    [][\A p \in Pairs :
          (GetRAiD(p).err = Ok /\ last'.op = "create" /\ last'.pair = p) =>
              /\ last'.err = ErrAlreadyExists
              /\ UNCHANGED storeVars]_vars

C3_Witness ==
    /\ last.op = "create"
    /\ last.err = ErrAlreadyExists
    /\ GetRAiD(last.pair).err = Ok
    /\ GetRAiD(last.pair).raid.version >= 2

\* Every worker's call on pair p was an update and has returned.
AllUpdated(p) ==
    \A w \in Workers :
        workers[w].pc = "done" /\ workers[w].op = "update" /\ workers[w].pair = p

\* Every worker's call on pair p was a create of a payload that carried no
\* version, and has returned.
AllCreated(p) ==
    \A w \in Workers :
        /\ workers[w].pc = "done"
        /\ workers[w].op = "create"
        /\ workers[w].pair = p
        /\ workers[w].sv = 0

\* The workers whose call succeeded.
Winners == {w \in Workers : workers[w].err = Ok}

C5_AllConcurrentUpdatesLand ==
    \A p \in Pairs :
        (driver \in {"fdb", "cockroach"} /\ AllUpdated(p) /\ base[p].current >= 1) =>
            /\ GetRAiDHistory(p).err = Ok
            /\ Len(GetRAiDHistory(p).raids) = Cardinality(base[p].versions) + NumWorkers
            /\ HistoryVersions(p) =
                   base[p].versions \cup ((base[p].current + 1)..(base[p].current + NumWorkers))

\* C5: when every one of the N concurrent update calls on a pair at version V
\* has returned, the k calls that succeeded returned the versions V+1..V+k and
\* the history holds exactly these new versions besides the versions it held;
\* on the key-value backend k = N, on the SQL backend 1 <= k <= N and every
\* other call failed with an error that is neither NotFound nor AlreadyExists.
C5_SuccessfulUpdatesLand ==
    \A p \in Pairs :
        (driver \in {"fdb", "cockroach"} /\ AllUpdated(p) /\ base[p].current >= 1) =>
            LET V == base[p].current
                k == Cardinality(Winners)
            IN  /\ {workers[w].version : w \in Winners} = (V + 1)..(V + k)
                /\ GetRAiDHistory(p).err = Ok
                /\ Len(GetRAiDHistory(p).raids) = Cardinality(base[p].versions) + k
                /\ HistoryVersions(p) = base[p].versions \cup ((V + 1)..(V + k))
                /\ driver = "fdb" => k = NumWorkers
                /\ driver = "cockroach" =>
                       /\ k >= 1
                       /\ \A w \in Workers \ Winners : workers[w].err = ErrOther

C5_Witness ==
    \E p \in Pairs, w \in Workers :
        /\ driver = "cockroach"
        /\ AllUpdated(p)
        /\ base[p].current >= 1
        /\ workers[w].conflict
        /\ workers[w].err = ErrOther
        /\ Cardinality(Winners) < NumWorkers

\* C6: when concurrent createRecord calls with the same identifier on an empty
\* pair have returned, exactly one has succeeded, every other has failed with
\* AlreadyExists, and the pair holds exactly one record, of version 1.
C6_ConcurrentCreateOneWins ==
    \A p \in Pairs :
        (AllCreated(p) /\ base[p].current = 0 /\ base[p].versions = {}) =>
            /\ Cardinality(Winners) = 1
            /\ \A w \in Workers \ Winners : workers[w].err = ErrAlreadyExists
            /\ GetRAiDHistory(p).err = Ok
            /\ Len(GetRAiDHistory(p).raids) = 1
            /\ GetRAiDHistory(p).raids[1].version = 1

\* C7: right after a successful softDelete, getCurrent on the pair fails with
\* NotFound and no result of list or listPublic, whatever the filter, holds
\* the pair.
C7_DeletedIsHidden ==
    (last.op = "delete" /\ last.err = Ok) =>
        /\ GetRAiD(last.pair).err = ErrNotFound
        /\ \A filter \in Filters :
               /\ \A raids \in ListRAiDs(filter) : Omits(raids, last.pair)
               /\ \A raids \in ListPublicRAiDs(filter) : Omits(raids, last.pair)

C7_Witness ==
    /\ last.op = "delete"
    /\ last.err = Ok
    /\ life[last.pair].deleted
    /\ GetRAiD(last.pair).err = ErrNotFound
    /\ \A raids \in ListRAiDs([contributorID |-> "", organisationID |-> "",
                                limit |-> 0, offset |-> 0]) : raids = <<>>

\* C8: a successful softDelete leaves getHistory and every getVersion of the
\* pair returning what they returned before it.
C8_DeleteKeepsHistory ==
    [][\A p \in Pairs :
          (last'.op = "delete" /\ last'.pair = p /\ last'.err = Ok) =>
              /\ GetRAiDHistory(p)' = GetRAiDHistory(p)
              /\ \A v \in Versions : GetRAiDVersion(p, v)' = GetRAiDVersion(p, v)]_vars

\* C9: once softDelete has succeeded on a pair, getCurrent keeps failing with
\* NotFound and list keeps omitting the pair over every later sequence of
\* update and softDelete calls.
C9_DeletedStaysHidden ==
    \A p \in Pairs :
        life[p].deleted =>
            /\ GetRAiD(p).err = ErrNotFound
            /\ \A filter \in Filters : \A raids \in ListRAiDs(filter) : Omits(raids, p)

\* C10: getVersion(p, v) returns the payload written when version v was
\* created, however many updates follow: a write that returns version v makes
\* getVersion(p, v) return its payload, an update leaves the result of
\* getVersion unchanged for every other version, and after a create and any
\* number of updates the version the create returned still holds the original
\* payload.
C10_SnapshotsSurviveUpdates ==
    [][\A p \in Pairs :
          /\ \A v \in Versions, body \in Bodies :
                 (/\ last'.op \in {"create", "update"}
                  /\ last' = Call(last'.op, p, Ok, v, body, last'.sv)) =>
                     /\ GetRAiDVersion(p, v)' = [err |-> Ok, raid |-> RAiD(v, body)]
                     /\ last'.op = "update" =>
                            \A w \in Versions \ {v} :
                                GetRAiDVersion(p, w)' = GetRAiDVersion(p, w)
          /\ \A v \in Versions, body \in Bodies :
                 (life'[p].n >= 1 /\ life'[p].v0 = v /\ life'[p].b0 = body) =>
                     GetRAiDVersion(p, v)' = [err |-> Ok, raid |-> RAiD(v, body)]]_vars

C10_Witness ==
    \E p \in Pairs :
        /\ life[p].n >= 3
        /\ life[p].v0 = 1
        /\ GetRAiDVersion(p, 1).err = Ok
        /\ GetRAiDVersion(p, 1).raid.body = life[p].b0
        /\ GetRAiD(p).raid.body # life[p].b0

\* The payload stored for the triple (p, v), "none" when nothing is stored for
\* it.  file: the history file v<v>.json, else the current file or the
\* .deleted file when it holds version v; fdb: the "version" key; cockroach:
\* the row of the primary key.
Snapshot(p, v) ==
    IF driver = "file"
    THEN IF fsHist[p][v] # NoRec THEN fsHist[p][v].body
         ELSE IF fsCur[p].version = v THEN fsCur[p].body
         ELSE IF fsDel[p].version = v THEN fsDel[p].body
         ELSE "none"
    ELSE IF driver = "fdb" THEN kvVer[p][v].body
    ELSE sqlRows[p][v].body

\* The versions of pair p that are marked current: the current file, the
\* "current" key, the rows with is_current = true.
CurrentVersions(p) ==
    IF driver = "file" THEN {v \in Versions : fsCur[p].version = v}
    ELSE IF driver = "fdb" THEN {v \in Versions : kvCur[p].version = v}
    ELSE CurrentRows(p)

\* The versions of pair p for which something is stored.
StoredVersions(p) == {v \in Versions : Snapshot(p, v) # "none"}

\* A create has succeeded on pair p at some time.
EverCreated(p) == life[p].n >= 0 \/ life[p].deleted

\* C11: once a snapshot has been written for (namespace, localId, version),
\* the content stored for that triple never changes and is never removed,
\* over every createRecord, update and softDelete step (a createRecord that
\* re-uses the identifier of a soft-deleted pair included).
C11_SnapshotImmutable ==
    [][\A p \in Pairs, v \in Versions :
          Snapshot(p, v) # "none" => Snapshot(p, v)' = Snapshot(p, v)]_vars

\* C12: every pair that has ever been created has exactly one version marked
\* current, and that version is the highest version stored for the pair.
C12_OneCurrentHighest ==
    \A p \in Pairs :
        EverCreated(p) =>
            /\ Cardinality(CurrentVersions(p)) = 1
            /\ \A v \in CurrentVersions(p) : \A w \in StoredVersions(p) : w <= v

\* C13: any two successful generateIdentifier calls that resolved to the same
\* namespace returned different localId values.
C13_MintedSuffixesDistinct ==
    \A i \in DOMAIN minted, j \in DOMAIN minted :
        (i # j /\ minted[i][1] = minted[j][1]) => minted[i][2] # minted[j][2]

\* C14: generateIdentifier returns the namespacePrefix of the issuing point
\* named in the request whenever one is named, and the default namespace
\* "10.25.1.1" when none is named (id 0).
C14_PrefixOfNamedServicePoint ==
    mlast.op = "generate" =>
        IF mlast.id = 0
        THEN mlast.prefix = DefaultPrefix
        ELSE /\ GetServicePoint(mlast.id).err = Ok
             /\ mlast.prefix = GetServicePoint(mlast.id).sp.prefix

\* A step in which a CreateServicePoint call with the submitted id returned.
CreateServicePointStep(id) ==
    /\ mlast'.op = "createSP"
    /\ mlast'.id = id
    /\ mlast' # mlast \/ sps' # sps \/ spCounter' # spCounter

\* C15: createIssuingPoint with a caller-supplied id that is already stored
\* fails with AlreadyExists, leaves the stored issuing points unchanged and
\* creates no further issuing point.
C15_SuppliedIdTaken ==
    [][\A id \in SuppliedIDs \ {0} :
          (GetServicePoint(id).err = Ok /\ CreateServicePointStep(id)) =>
              /\ mlast'.err = ErrAlreadyExists
              /\ sps' = sps]_vars

\* C16: createIssuingPoint with the id unset succeeds and returns an id under
\* which no issuing point was stored before the call.
C16_GeneratedIdFresh ==
    [][CreateServicePointStep(0) =>
          /\ mlast'.err = Ok
          /\ \A k \in SpKeys : sps[k].present => mlast'.spID # k]_vars

\* C17: getHistory on a pair that was never created fails with NotFound.
C17_HistoryOfUnknownPair ==
    \A p \in Pairs : ~EverCreated(p) => GetRAiDHistory(p).err = ErrNotFound

\* C18: softDelete on a pair that was never created fails with NotFound and
\* changes nothing that is stored.
C18_DeleteOfUnknownPair ==
    [][\A p \in Pairs :
          (~EverCreated(p) /\ last'.op = "delete" /\ last'.pair = p) =>
              /\ last'.err = ErrNotFound
              /\ UNCHANGED storeVars]_vars

\* C19: update on a pair whose current version (the one getCurrent returns)
\* is N returns version N+1 and makes the record with the submitted payload
\* the one getCurrent returns; update on a pair for which getCurrent finds
\* nothing fails with NotFound and writes nothing.
C19_UpdateWritesNextVersion ==
    [][\A p \in Pairs :
          (last'.op = "update" /\ last'.pair = p) =>
              IF GetRAiD(p).err = Ok
              THEN /\ last'.err = Ok
                   /\ last'.version = GetRAiD(p).raid.version + 1
                   /\ GetRAiD(p)' = [err |-> Ok,
                                     raid |-> RAiD(GetRAiD(p).raid.version + 1, last'.body)]
              ELSE /\ last'.err = ErrNotFound
                   /\ UNCHANGED storeVars]_vars

\* The current, non-deleted records that satisfy the attribute predicates of
\* the filter.
Matching(filter) ==
    {[pair |-> p, raid |-> GetRAiD(p).raid] :
        p \in {q \in Pairs :
                 /\ GetRAiD(q).err = Ok
                 /\ (filter.contributorID # "" =>
                        filter.contributorID \in ContributorsOf(GetRAiD(q).raid.body))
                 /\ (filter.organisationID # "" =>
                        filter.organisationID \in OrganisationsOf(GetRAiD(q).raid.body))}}

\* The elements of seq at the positions offset .. offset+limit-1, counted from
\* 0 (all elements from offset on when limit is 0).
PageOf(seq, offset, limit) ==
    [i \in 1..(IF offset >= Len(seq) THEN 0
               ELSE IF limit = 0 \/ offset + limit > Len(seq) THEN Len(seq) - offset
               ELSE limit) |-> seq[offset + i]]

\* C20: list(filter) returns exactly the elements at the positions offset ..
\* offset+limit-1 of the matching records in some order of the backend, and
\* so the empty list when offset is at least the number of matching records.
C20_ListPage ==
    \A filter \in Filters : \A raids \in ListRAiDs(filter) :
        \E seq \in Orderings(Matching(filter)) :
            raids = PageOf(seq, filter.offset, filter.limit)

\* What ListRAiDs of the selected driver would return for the filter if the
\* store held only the open-access records: the possible results.
ListOfPublicStore(filter) ==
    CASE driver = "file" ->
           {Paginate(applyFilters(OnlyPublic(loadAllRAiDs), filter), filter)}
      [] driver = "fdb" ->
           {Paginate(applyFilters(OnlyPublic(CurrentEntries(kvCur, 1)), filter), filter)}
      [] OTHER ->
           {SqlPage(s, filter) :
              s \in Orderings({r \in SqlLiveEntries :
                    /\ AccessTypeOf(r.raid.body) = OpenAccessType
                    /\ (filter.contributorID # "" =>
                           filter.contributorID \in ContributorsOf(r.raid.body))
                    /\ (filter.organisationID # "" =>
                           filter.organisationID \in OrganisationsOf(r.raid.body))})}

\* C21: listPublic(filter) returns exactly what list(filter) would return if
\* the store held only the open-access records: the open-access restriction
\* and the attribute predicates of the filter come first, offset and limit
\* are applied to the restricted sequence.
C21_ListPublicIsListOfPublic ==
    \A filter \in Filters : ListPublicRAiDs(filter) = ListOfPublicStore(filter)

\* ---------------------------------------------------------- the git overlay

\* GitStorage.gitCommit: "git add -A", then "git commit -m message"; ok tells
\* whether both commands succeed.  A failed commit leaves HEAD where it was.
gitCommit(message, ok) ==
    gitHead' = IF ok THEN message ELSE gitHead

\* An overlay that hands the failure of the commit to its caller.
GitReturn_CommitError(call, commit) ==
    [op |-> call.op, pair |-> call.pair,
     err |-> IF commit = "failed" THEN ErrOther ELSE call.err,
     version |-> IF call.err # Ok \/ commit = "failed" THEN 0 ELSE call.version,
     commit |-> commit]

\* What a mutating method of GitStorage returns after the wrapped FileStorage
\* method returned call: (nil, err) when that failed, (result, nil) otherwise;
\* the error of the commit is printed and dropped.
GitReturn(call, commit) ==
    [op |-> call.op, pair |-> call.pair, err |-> call.err,
     version |-> IF call.err # Ok THEN 0 ELSE call.version,
     commit |-> commit]

\* An overlay that commits whatever the wrapped method returned and whatever
\* its configuration.
GitAfter_AlwaysCommit(call, message, ok) ==
    /\ gitCommit(message, ok)
    /\ gitLast' = GitReturn(call, IF ok THEN "committed" ELSE "failed")

\* The rest of a mutating method of GitStorage once the wrapped method has
\* returned call: return its error, or commit when gs.gitEnabled &&
\* gs.autoCommit and return its result.
GitAfter(call, message, ok) ==
    IF call.err # Ok
    THEN gitLast' = GitReturn(call, "none") /\ UNCHANGED gitHead
    ELSE IF autoCommit
    THEN /\ gitCommit(message, ok)
         /\ gitLast' = GitReturn(call, IF ok THEN "committed" ELSE "failed")
    ELSE gitLast' = GitReturn(call, "none") /\ UNCHANGED gitHead

\* GitStorage.CreateRAiD
GitCreateRAiD(p, body, sv, ok) ==
    /\ FileCreateRAiD(p, body, sv)
    /\ GitAfter(last', [op |-> "Create RAiD", pair |-> p, version |-> 0], ok)
    /\ UNCHANGED autoCommit

\* GitStorage.UpdateRAiD
GitUpdateRAiD(p, body, ok) ==
    /\ FileUpdateRAiD(p, body)
    /\ GitAfter(last', [op |-> "Update RAiD", pair |-> p, version |-> last'.version], ok)
    /\ UNCHANGED autoCommit

\* GitStorage.DeleteRAiD
GitDeleteRAiD(p, ok) ==
    /\ FileDeleteRAiD(p)
    /\ GitAfter(last', [op |-> "Delete RAiD", pair |-> p, version |-> 0], ok)
    /\ UNCHANGED autoCommit

\* GitStorage.CreateServicePoint
GitCreateServicePoint(id, prefix, ok) ==
    /\ FileCreateServicePoint(id, prefix)
    /\ GitAfter([op |-> "createSP", pair |-> <<"", "">>, err |-> mlast'.err,
                 version |-> mlast'.spID],
                [op |-> "Create service point", pair |-> <<"", "">>,
                 version |-> mlast'.spID], ok)
    /\ UNCHANGED autoCommit

\* NewGitStorage over an empty data directory, with either configuration.
InitGit ==
    /\ InitStore
    /\ driver = "file"
    /\ autoCommit \in BOOLEAN
    /\ gitHead = NoCommit
    /\ gitLast = NoGitCall
    /\ ReplayIdle
    /\ LockIdle
    /\ HttpIdle
    /\ MetaIdle

\* One call of the git overlay after another.  A run works on the records
\* or on the service points, not on both: the two kinds of call share no
\* state but the commits.
NextGit ==
    \/ \E p \in Pairs, body \in Bodies, sv \in SubmittedVersions, ok \in BOOLEAN :
           mlast = NoMint /\ GitCreateRAiD(p, body, sv, ok) /\ UNCHANGED <<concVars, mintVars, round, outs, lockVars, httpVars, metaVars>>
    \/ \E p \in Pairs, body \in Bodies, ok \in BOOLEAN :
           mlast = NoMint /\ GitUpdateRAiD(p, body, ok) /\ UNCHANGED <<concVars, mintVars, round, outs, lockVars, httpVars, metaVars>>
    \/ \E p \in Pairs, ok \in BOOLEAN :
           mlast = NoMint /\ GitDeleteRAiD(p, ok) /\ UNCHANGED <<concVars, mintVars, round, outs, lockVars, httpVars, metaVars>>
    \/ \E id \in SuppliedIDs, prefix \in SpPrefixes, ok \in BOOLEAN :
           last = NoCall /\ GitCreateServicePoint(id, prefix, ok)
              /\ UNCHANGED <<round, outs, lockVars, httpVars, metaVars>>

SpecGit == InitGit /\ [][NextGit]_vars

DriverOrder == <<"file", "fdb", "cockroach">>

\* The calls SpecAll draws from.
ReplayCalls ==
    [op : {"create"}, pair : Pairs, body : Bodies, sv : SubmittedVersions]
    \cup [op : {"update"}, pair : Pairs, body : Bodies, sv : {0}]
    \cup [op : {"delete"}, pair : Pairs, body : {"none"}, sv : {0}]

\* No driver's update would store a version beyond MaxVersion.
RoomForAll(c) ==
    c.op = "update" =>
        /\ fsCur[c.pair].version < MaxVersion
        /\ kvCur[c.pair].version < MaxVersion
        /\ \A v \in CurrentRows(c.pair) : v < MaxVersion

\* The call c on the selected driver.
ApplyCall(c) ==
    \/ /\ c.op = "create"
       /\ \/ FileCreateRAiD(c.pair, c.body, c.sv)
          \/ FdbCreateRAiD(c.pair, c.body, c.sv)
          \/ SqlCreateRAiD(c.pair, c.body, c.sv)
    \/ /\ c.op = "update"
       /\ \/ FileUpdateRAiD(c.pair, c.body)
          \/ FdbUpdateRAiD(c.pair, c.body)
          \/ SqlUpdateRAiD(c.pair, c.body)
    \/ /\ c.op = "delete"
       /\ \/ FileDeleteRAiD(c.pair)
          \/ FdbDeleteRAiD(c.pair)
          \/ SqlDeleteRAiD(c.pair)

\* The selected driver takes the call of the round (the file driver takes a
\* new call) and its outcome is kept.
ReplayStep(c) ==
    /\ driver \notin round.done
    /\ IF round.call = NoReplay
       THEN driver = "file" /\ RoomForAll(c) /\ round.n < MaxRounds
       ELSE c = round.call
    /\ ApplyCall(c)
    /\ round' = [round EXCEPT !.call = c, !.done = round.done \cup {driver}]
    /\ outs' = [outs EXCEPT ![driver] = [err |-> last'.err, version |-> last'.version]]
    /\ UNCHANGED <<concVars, mintVars, gitVars, lockVars, httpVars, metaVars>>

\* The next driver is selected for the call of the round.
SwitchDriver ==
    /\ driver \in round.done
    /\ round.done # Drivers
    /\ \E i \in 1..(Len(DriverOrder) - 1) :
          driver = DriverOrder[i] /\ driver' = DriverOrder[i + 1]
    /\ UNCHANGED <<raidVars, concVars, mintVars, gitVars, round, outs, lockVars, httpVars, metaVars>>

\* All three drivers have returned: the next call can start.
EndRound ==
    /\ round.done = Drivers
    /\ driver' = DriverOrder[1]
    /\ round' = [call |-> NoReplay, done |-> {}, n |-> round.n + 1]
    /\ UNCHANGED <<raidVars, concVars, mintVars, gitVars, outs, lockVars, httpVars, metaVars>>

\* Three empty stores.
InitAll ==
    /\ InitStore /\ driver = DriverOrder[1]
    /\ GitIdle /\ ReplayIdle /\ LockIdle /\ HttpIdle /\ MetaIdle

NextAll ==
    \/ \E c \in ReplayCalls : c.op = "create" /\ ReplayStep(c)
    \/ \E c \in ReplayCalls : c.op = "update" /\ ReplayStep(c)
    \/ \E c \in ReplayCalls : c.op = "delete" /\ ReplayStep(c)
    \/ SwitchDriver
    \/ EndRound

SpecAll == InitAll /\ [][NextAll]_vars

\* The success / NotFound / AlreadyExists classification and the version of a
\* read result.
Verdict(r) == [err |-> r.err, version |-> IF r.err = Ok THEN r.raid.version ELSE 0]

\* The classification of a getHistory result and its versions in order.
HistoryVerdict(h) ==
    [err |-> h.err,
     versions |-> IF h.err = Ok THEN [i \in 1..Len(h.raids) |-> h.raids[i].version]
                  ELSE <<>>]

\* C23: starting from empty stores, every sequence of createRecord, update,
\* softDelete, getCurrent, getVersion and getHistory calls yields the same
\* outcomes on the three drivers: the same classification of each call, the
\* same version numbers and the same order of versions in getHistory.
C23_BackendsEquivalent ==
    round.call = NoReplay =>
        /\ outs["file"] = outs["fdb"] /\ outs["fdb"] = outs["cockroach"]
        /\ \A p \in Pairs :
              /\ Verdict(FileGetRAiD(p)) = Verdict(FdbGetRAiD(p))
              /\ Verdict(FdbGetRAiD(p)) = Verdict(SqlGetRAiD(p))
              /\ \A v \in Versions :
                    /\ Verdict(FileGetRAiDVersion(p, v)) = Verdict(FdbGetRAiDVersion(p, v))
                    /\ Verdict(FdbGetRAiDVersion(p, v)) = Verdict(SqlGetRAiDVersion(p, v))
              /\ HistoryVerdict(FileGetRAiDHistory(p)) = HistoryVerdict(FdbGetRAiDHistory(p))
              /\ HistoryVerdict(FdbGetRAiDHistory(p)) = HistoryVerdict(SqlGetRAiDHistory(p))

\* ------------------------------------------------ the lock of the file driver

\* The methods of FileStorage that take fs.mu.Lock().
LockingMethods ==
    {"CreateRAiD", "UpdateRAiD", "DeleteRAiD",
     "CreateServicePoint", "UpdateServicePoint", "DeleteServicePoint"}

\* The methods that take fs.mu.RLock() (ListPublicRAiDs takes it inside its
\* call of ListRAiDs).
RLockingMethods ==
    {"GetRAiD", "GetRAiDVersion", "GetRAiDHistory", "ListRAiDs", "ListPublicRAiDs",
     "GetServicePoint", "ListServicePoints"}

\* The methods that take no lock.
UnlockedMethods == {"GenerateIdentifier", "HealthCheck"}

\* An RLock that is granted whatever the state of the lock.
CanRLock_Always(w) == TRUE

\* sync.RWMutex.RLock returns when no goroutine holds the write lock.
CanRLock(w) == mu.writer = 0

\* sync.RWMutex.Lock returns when no goroutine holds the lock in either mode.
CanLock(w) == mu.writer = 0 /\ mu.readers = {}

\* Worker w enters a method that starts with fs.mu.Lock().
Lock(w, method) ==
    /\ driver = "file"
    /\ running[w] = "none"
    /\ method \in LockingMethods
    /\ CanLock(w)
    /\ mu' = [mu EXCEPT !.writer = w]
    /\ running' = [running EXCEPT ![w] = method]

\* Worker w enters a method that starts with fs.mu.RLock().
RLock(w, method) ==
    /\ driver = "file"
    /\ running[w] = "none"
    /\ method \in RLockingMethods
    /\ CanRLock(w)
    /\ mu' = [mu EXCEPT !.readers = @ \cup {w}]
    /\ running' = [running EXCEPT ![w] = method]

\* Worker w enters GenerateIdentifier or HealthCheck.
Enter(w, method) ==
    /\ driver = "file"
    /\ running[w] = "none"
    /\ method \in UnlockedMethods
    /\ running' = [running EXCEPT ![w] = method]
    /\ UNCHANGED mu

\* Worker w returns: the deferred Unlock or RUnlock runs, if any.
Leave(w) ==
    /\ running[w] # "none"
    /\ mu' = [writer |-> IF mu.writer = w THEN 0 ELSE mu.writer,
              readers |-> mu.readers \ {w}]
    /\ running' = [running EXCEPT ![w] = "none"]

NextLock ==
    \/ \E w \in Workers, method \in LockingMethods :
           Lock(w, method) /\ UNCHANGED <<driver, raidVars, concVars, mintVars, gitVars, round, outs, httpVars, metaVars>>
    \/ \E w \in Workers, method \in RLockingMethods :
           RLock(w, method) /\ UNCHANGED <<driver, raidVars, concVars, mintVars, gitVars, round, outs, httpVars, metaVars>>
    \/ \E w \in Workers, method \in UnlockedMethods :
           Enter(w, method) /\ UNCHANGED <<driver, raidVars, concVars, mintVars, gitVars, round, outs, httpVars, metaVars>>
    \/ \E w \in Workers :
           Leave(w) /\ UNCHANGED <<driver, raidVars, concVars, mintVars, gitVars, round, outs, httpVars, metaVars>>

\* The file driver after New, with no method running.
InitLock == Init /\ driver = "file"

SpecLock == InitLock /\ [][NextLock]_vars

\* The workers that are inside a method of the file driver.
Executing == {w \in Workers : running[w] # "none"}

UpdateWrites == <<"history", "current">>

\* FileStorage.CreateRAiD when saveRAiD fails: nothing was written before it.
FileCreateRAiDFails(p, body, sv) ==
    /\ driver = "file"
    /\ fsCur[p] = NoRec
    /\ last' = Call("create", p, ErrOther, 0, body, sv)
    /\ UNCHANGED <<driver, fileVars, fdbVars, sqlRows, life>>

\* FileStorage.UpdateRAiD when the write numbered failing fails: saveRAiDToFile
\* of the history file ("failed to save history"), or saveRAiD of the current
\* file after the history file has been written.
FileUpdateRAiDFails(p, body, failing) ==
    /\ driver = "file"
    /\ LET existing == loadRAiD(p) IN
       /\ existing.err = Ok
       /\ fsHist' = IF UpdateWrites[failing] = "history" THEN fsHist
                    ELSE [fsHist EXCEPT ![p][existing.raid.version] = existing.raid]
       /\ last' = Call("update", p, ErrOther, 0, body, 0)
    /\ UNCHANGED <<driver, fsCur, fsDel, fdbVars, sqlRows, life>>

\* The calls of the contract, each of which may fail at a write.
NextFail ==
    \/ Next
    \/ \E p \in Pairs, body \in Bodies, sv \in SubmittedVersions :
           FileCreateRAiDFails(p, body, sv) /\ UNCHANGED <<concVars, mintVars, extVars>>
    \/ \E p \in Pairs, body \in Bodies, failing \in DOMAIN UpdateWrites :
           FileUpdateRAiDFails(p, body, failing) /\ UNCHANGED <<concVars, mintVars, extVars>>

SpecFail == Init /\ [][NextFail]_vars

\* C25: on the file driver a create or update that fails at any step leaves
\* no partial visible write: getCurrent, getVersion and getHistory of the
\* pair return after the call what they returned before it.
C25_FailedWriteLeavesNoTrace ==
    [][\A p \in Pairs :
          (/\ driver = "file"
           /\ last'.pair = p
           /\ last'.op \in {"create", "update"}
           /\ last'.err # Ok)
          => /\ FileGetRAiD(p)' = FileGetRAiD(p)
             /\ FileGetRAiDHistory(p)' = FileGetRAiDHistory(p)
             /\ \A v \in Versions : FileGetRAiDVersion(p, v)' = FileGetRAiDVersion(p, v)]_vars

\* --------------------------------------------------------- the HTTP handlers

\* net/http status codes the handlers write (200 is what the ResponseWriter
\* sends when the handler encodes a body without calling WriteHeader).
StatusOK == 200
StatusCreated == 201
StatusBadRequest == 400
StatusNotFound == 404
StatusConflict == 409
StatusInternalServerError == 500

\* The request bodies: a JSON object that fits models.RAiD; the JSON value
\* null; a JSON object followed by text that is not JSON; a JSON value of
\* another type (array, string, number); text that is not JSON from its first
\* byte on.
BodyKinds == {"record", "null", "trailing", "wrongtype", "malformed"}

\* json.NewDecoder(r.Body).Decode(&req) with req a models.RAiD: Decode reads
\* the first JSON value of the body and nothing after it; null leaves req as
\* it is without an error; a value of another type and a syntax error are
\* errors.
Decode(body) == IF body \in {"wrongtype", "malformed"} THEN ErrOther ELSE Ok

\* What the repository of the handler may return: testutil.MockRepository
\* returns whatever its function field returns.
StorageErrors == {Ok, ErrNotFound, ErrAlreadyExists, ErrOther}

\* MockRepository: the call counter of a method goes up with every call.
Called(method) ==
    /\ repoCalls[method] < MaxCalls
    /\ repoCalls' = [repoCalls EXCEPT ![method] = @ + 1]

\* The status of MintRAiD after CreateRAiD returned err.
MintStatus(err) ==
    IF err = Ok THEN StatusCreated
    ELSE IF err = ErrAlreadyExists THEN StatusConflict
    ELSE StatusInternalServerError

\* The status of FindRAiDByName, UpdateRAiD and RAiDHistory after the
\* repository returned err.
LookupStatus(err) ==
    IF err = Ok THEN StatusOK
    ELSE IF err = ErrNotFound THEN StatusNotFound
    ELSE StatusInternalServerError

\* RAiDHandler.MintRAiD: POST /raid/
MintRAiD(body, err) ==
    IF Decode(body) # Ok
    THEN /\ resp' = Response("MintRAiD", body, "uncalled", StatusBadRequest)
         /\ UNCHANGED repoCalls
    ELSE /\ Called("CreateRAiD")
         /\ resp' = Response("MintRAiD", body, err, MintStatus(err))

\* RAiDHandler.FindRAiDByName: GET /raid/{prefix}/{suffix}
FindRAiDByName(err) ==
    /\ Called("GetRAiD")
    /\ resp' = Response("FindRAiDByName", "none", err, LookupStatus(err))

\* RAiDHandler.UpdateRAiD: PUT /raid/{prefix}/{suffix}
UpdateRAiD(body, err) ==
    IF Decode(body) # Ok
    THEN /\ resp' = Response("UpdateRAiD", body, "uncalled", StatusBadRequest)
         /\ UNCHANGED repoCalls
    ELSE /\ Called("UpdateRAiD")
         /\ resp' = Response("UpdateRAiD", body, err, LookupStatus(err))

\* RAiDHandler.RAiDHistory: GET /raid/{prefix}/{suffix}/history
RAiDHistory(err) ==
    /\ Called("GetRAiDHistory")
    /\ resp' = Response("RAiDHistory", "none", err, LookupStatus(err))

\* NewRAiDHandler over a fresh MockRepository (the stores are not used).
InitHttp == Init /\ driver = "file"

NextHttp ==
    \/ \E body \in BodyKinds, err \in StorageErrors :
           MintRAiD(body, err)
              /\ UNCHANGED <<driver, raidVars, concVars, mintVars, gitVars, round, outs, lockVars, metaVars>>
    \/ \E err \in StorageErrors :
           FindRAiDByName(err)
              /\ UNCHANGED <<driver, raidVars, concVars, mintVars, gitVars, round, outs, lockVars, metaVars>>
    \/ \E body \in BodyKinds, err \in StorageErrors :
           UpdateRAiD(body, err)
              /\ UNCHANGED <<driver, raidVars, concVars, mintVars, gitVars, round, outs, lockVars, metaVars>>
    \/ \E err \in StorageErrors :
           RAiDHistory(err)
              /\ UNCHANGED <<driver, raidVars, concVars, mintVars, gitVars, round, outs, lockVars, metaVars>>

SpecHttp == InitHttp /\ [][NextHttp]_vars

C27_InvalidBodyRejected ==
    [][(resp'.handler \in {"MintRAiD", "UpdateRAiD"} /\ resp'.body # "record")
          => (resp'.status = StatusBadRequest /\ repoCalls' = repoCalls)]_vars

\* C28: over any sequence of createRecord, update and softDelete calls the
\* versions that successful writes to a pair return are strictly increasing:
\* the version a write returns is above every version stored for the pair
\* before it; the version of a pair never goes down or restarts at 1.
C28_VersionsStrictlyIncrease ==
    [][\A p \in Pairs :
          (/\ last'.pair = p
           /\ last'.op \in {"create", "update"}
           /\ last'.err = Ok)
          => \A v \in StoredVersions(p) : v < last'.version]_vars

\* ---------------------------------------------------------------------------
\* Metadata.Created of the stored versions
\* ---------------------------------------------------------------------------

\* What time.Now() may read when the clock stood at `now`: a later or equal
\* microsecond, with or without nanoseconds below it.
Readings == {Time(at, sub) : at \in now..MaxClock, sub \in {0, 1}}

\* What a payload may carry as Metadata.Created: nothing or any time.
GivenTimes == {NoTime} \cup {Time(at, sub) : at \in 1..MaxClock, sub \in {0, 1}}

\* A value stored in and read back from the column created_at TIMESTAMP:
\* the column keeps microseconds.
Column(t) == Time(t.at, 0)

\* CreateRAiD sets Metadata.Created to the time read and stores the record;
\* the sql driver also writes the time to the column created_at of the row.
CreatedByCreate(m, version, t) ==
    CASE driver = "file" -> [m EXCEPT !.cur = t]
      [] driver = "fdb" -> [m EXCEPT !.cur = t, !.ver[version] = t]
      [] driver = "cockroach" ->
            [m EXCEPT !.ver[version] = t, !.col[version] = Column(t)]

\* UpdateRAiD overwrites the Metadata.Created of the payload (given) with the
\* one of the record it read: the current file, which it first copies to the
\* history, the "current" key, or the column created_at of the current row.
CreatedByUpdate(m, version, given) ==
    CASE driver = "file" -> [m EXCEPT !.ver[version - 1] = m.cur, !.cur = m.cur]
      [] driver = "fdb" -> [m EXCEPT !.ver[version] = m.cur, !.cur = m.cur]
      [] driver = "cockroach" ->
            [m EXCEPT !.ver[version] = m.col[version - 1],
                      !.col[version] = Column(m.col[version - 1])]

\* DeleteRAiD takes the current file or the "current" key away; the sql
\* driver only sets deleted_at.
CreatedByDelete(m) ==
    IF driver = "cockroach" THEN m ELSE [m EXCEPT !.cur = NoTime]

\* The call c on the selected driver at the time t, with the payload's
\* Metadata.Created (given).
MetaCall(c, t, given) ==
    /\ ApplyCall(c)
    /\ now' = t.at
    /\ created' =
          IF last'.err # Ok THEN created
          ELSE [created EXCEPT ![c.pair] =
                  CASE c.op = "create" -> CreatedByCreate(@, last'.version, t)
                    [] c.op = "update" -> CreatedByUpdate(@, last'.version, given)
                    [] c.op = "delete" -> CreatedByDelete(@)]
    /\ UNCHANGED <<concVars, sps, spCounter, raidCounter, mlast, minted,
                   gitVars, round, outs, lockVars, httpVars, named, treeVars, assigned>>

\* The calls of SpecMeta: submitted version 0 and one content, which has no
\* part in Metadata.Created.
MetaCalls(op) ==
    {[op |-> op, pair |-> p, body |-> "docA", sv |-> 0] : p \in Pairs}

NextMeta ==
    \/ \E c \in MetaCalls("create"), t \in Readings : MetaCall(c, t, NoTime)
    \/ \E c \in MetaCalls("update"), t \in Readings, given \in GivenTimes :
           MetaCall(c, t, given)
    \/ \E c \in MetaCalls("delete"), t \in Readings : MetaCall(c, t, NoTime)

SpecMeta == Init /\ [][NextMeta]_vars

\* Metadata.Created of the records GetRAiDHistory returns for p.
HistoryCreated(p) ==
    CASE driver = "file" ->
            IF fsCur[p] = NoRec THEN {}
            ELSE {created[p].cur}
                 \cup {created[p].ver[v] : v \in {w \in Versions : fsHist[p][w] # NoRec}}
      [] driver = "fdb" ->
            {created[p].ver[v] : v \in {w \in Versions : kvVer[p][w] # NoRec}}
      [] driver = "cockroach" ->
            {created[p].ver[v] : v \in StoredVersions(p)}

\* C29: all the versions of a pair carry one and the same createdAt, the one
\* set when version 1 was created: the records GetRAiDHistory returns for a
\* pair never differ in Metadata.Created.
C29_OneCreatedAtPerPair ==
    \A p \in Pairs : Cardinality(HistoryCreated(p)) <= 1

\* ---------------------------------------------------------------------------
\* The "current" key and the "version" keys of the fdb driver
\* ---------------------------------------------------------------------------

\* C30: in the fdb driver, after every step, a pair whose "current" key
\* exists has the "version" key of the version number stored in it, with the
\* same content; and a step that changes the "version" keys of a pair has
\* written exactly the key of the new "current" record: neither key is
\* committed without the other.
C30_CurrentAndVersionKeyTogether ==
    [][\A p \in Pairs :
          /\ kvCur'[p] # NoRec => kvVer'[p][kvCur'[p].version] = kvCur'[p]
          /\ kvVer'[p] # kvVer[p] =>
                /\ kvCur'[p] # NoRec
                /\ kvVer'[p] = [kvVer[p] EXCEPT ![kvCur'[p].version] = kvCur'[p]]]_vars

\* An update has committed in the fdb driver: the "current" key holds a
\* version above 1 and the "version" keys of version 1 and of that version
\* are there.
C30_Witness ==
    /\ driver = "fdb"
    /\ last.op = "update" /\ last.err = Ok
    /\ \E p \in Pairs :
          /\ last.pair = p
          /\ kvCur[p].version = last.version
          /\ kvCur[p].version > 1
          /\ kvVer[p][1] # NoRec
          /\ kvVer[p][kvCur[p].version] = kvCur[p]

\* ---------------------------------------------------------------------------
\* The suffix counters of the fdb and the sql driver
\* ---------------------------------------------------------------------------

\* Service points are created without an id and with one of two prefixes,
\* and identifiers are generated for them.
NextScope ==
    \/ \E prefix \in ScopePrefixes : FileCreateServicePoint(0, prefix) /\ UNCHANGED extVars
    \/ \E prefix \in ScopePrefixes : FdbCreateServicePoint(0, prefix) /\ UNCHANGED extVars
    \/ \E prefix \in ScopePrefixes : SqlCreateServicePoint(0, prefix) /\ UNCHANGED extVars
    \/ \E servicePointID \in NamedIDs : FileGenerateIdentifier(servicePointID) /\ UNCHANGED extVars
    \/ \E servicePointID \in NamedIDs : FdbGenerateIdentifier(servicePointID) /\ UNCHANGED extVars
    \/ \E servicePointID \in NamedIDs : SqlGenerateIdentifier(servicePointID) /\ UNCHANGED extVars

SpecScope == Init /\ [][NextScope]_vars

\* The suffix the next GenerateIdentifier call under prefix returns on the
\* fdb and the sql driver.
NextSuffix(prefix) ==
    IF driver = "fdb" THEN raidCounter[counterKey(prefix)] + 1
    ELSE IF raidCounter[counterName(prefix)] = 0 THEN 2
    ELSE raidCounter[counterName(prefix)] + 1

\* C31: on the fdb and the sql driver a mint under prefix A leaves the suffix
\* that the next mint under any other prefix B returns as it was.
C31_CounterScopedToPrefix ==
    [][\A A \in MintPrefixes, B \in MintPrefixes :
          (/\ driver \in {"fdb", "cockroach"}
           /\ minted' # minted
           /\ mlast'.prefix = A
           /\ B # A)
          => NextSuffix(B)' = NextSuffix(B)]_vars

\* fmt.Sprintf("%d", counter) for a counter that is not negative: the decimal
\* digits, the most significant first.
RECURSIVE Decimal(_)
Decimal(n) == IF n < 10 THEN <<n>> ELSE Append(Decimal(n \div 10), n % 10)

\* The integer a sequence of decimal digits renders.
RECURSIVE ValueOf(_)
ValueOf(digits) ==
    IF digits = <<>> THEN 0
    ELSE 10 * ValueOf(SubSeq(digits, 1, Len(digits) - 1)) + digits[Len(digits)]

\* C32: on the fdb and the sql driver, of two identifiers generated under one
\* prefix, the later one has a suffix that renders a strictly greater integer
\* than the earlier one, whether or not a record was created with the earlier.
C32_MintedSuffixesIncrease ==
    driver \in {"fdb", "cockroach"} =>
        \A i \in DOMAIN minted, j \in DOMAIN minted :
            (i < j /\ minted[i][1] = minted[j][1])
            => ValueOf(Decimal(minted[i][2])) < ValueOf(Decimal(minted[j][2]))

\* Three identifiers have been generated on the fdb or the sql driver, the
\* first and the last under one prefix and one under another in between.
C32_Witness ==
    /\ driver \in {"fdb", "cockroach"}
    /\ Len(minted) >= 3
    /\ minted[1][1] = minted[3][1]
    /\ minted[2][1] # minted[1][1]

\* ---------------------------------------------------------------------------
\* When the git overlay commits
\* ---------------------------------------------------------------------------

ReplaceServicePoint(id, prefix) ==
    IF GetServicePoint(id).err # Ok
    THEN /\ mlast' = MintCall("updateSP", id, ErrNotFound, 0, prefix, 0)
         /\ UNCHANGED sps
    ELSE /\ sps' = [sps EXCEPT ![id] = ServicePoint(id, prefix)]
         /\ mlast' = MintCall("updateSP", id, Ok, id, prefix, 0)

\* FileStorage.UpdateServicePoint
FileUpdateServicePoint(id, prefix) ==
    /\ driver = "file"
    /\ ReplaceServicePoint(id, prefix)
    /\ UNCHANGED <<driver, raidVars, concVars, spCounter, raidCounter, now, minted>>

\* FDBStorage.UpdateServicePoint
FdbUpdateServicePoint(id, prefix) ==
    /\ driver = "fdb"
    /\ ReplaceServicePoint(id, prefix)
    /\ UNCHANGED <<driver, raidVars, concVars, spCounter, raidCounter, now, minted>>

\* CockroachStorage.UpdateServicePoint
SqlUpdateServicePoint(id, prefix) ==
    /\ driver = "cockroach"
    /\ ReplaceServicePoint(id, prefix)
    /\ UNCHANGED <<driver, raidVars, concVars, spCounter, raidCounter, now, minted>>

\* FileStorage.DeleteServicePoint: os.Remove of the file; for a file that is
\* not there the call returns the error of os.Remove.
FileDeleteServicePoint(id) ==
    /\ driver = "file"
    /\ IF sps[id].present
       THEN /\ sps' = [sps EXCEPT ![id] = NoSp]
            /\ mlast' = MintCall("deleteSP", id, Ok, 0, "", 0)
       ELSE /\ mlast' = MintCall("deleteSP", id, ErrOther, 0, "", 0)
            /\ UNCHANGED sps
    /\ UNCHANGED <<driver, raidVars, concVars, spCounter, raidCounter, now, minted>>

\* A DeleteServicePoint that also clears the "current" keys of the records.
FdbDeleteServicePoint_WithRecords(id) ==
    /\ driver = "fdb"
    /\ sps' = [sps EXCEPT ![id] = NoSp]
    /\ mlast' = MintCall("deleteSP", id, Ok, 0, "", 0)
    /\ kvCur' = [p \in Pairs |-> NoRec]
    /\ UNCHANGED <<driver, fileVars, kvDel, kvVer, sqlRows, last, life, concVars,
                   spCounter, raidCounter, now, minted>>

\* FDBStorage.DeleteServicePoint: tr.Clear of the key, whether or not it is
\* set; the call returns the error of the transaction.
FdbDeleteServicePoint(id) ==
    /\ driver = "fdb"
    /\ sps' = [sps EXCEPT ![id] = NoSp]
    /\ mlast' = MintCall("deleteSP", id, Ok, 0, "", 0)
    /\ UNCHANGED <<driver, raidVars, concVars, spCounter, raidCounter, now, minted>>

\* CockroachStorage.DeleteServicePoint: DELETE of the row; ErrNotFound when no
\* row was affected.
SqlDeleteServicePoint(id) ==
    /\ driver = "cockroach"
    /\ IF sps[id].present
       THEN /\ sps' = [sps EXCEPT ![id] = NoSp]
            /\ mlast' = MintCall("deleteSP", id, Ok, 0, "", 0)
       ELSE /\ mlast' = MintCall("deleteSP", id, ErrNotFound, 0, "", 0)
            /\ UNCHANGED sps
    /\ UNCHANGED <<driver, raidVars, concVars, spCounter, raidCounter, now, minted>>

\* Service points are created, replaced and deleted, one call after another.
NextSp ==
    \/ \E id \in SuppliedIDs, prefix \in SpPrefixes : FileCreateServicePoint(id, prefix) /\ UNCHANGED extVars
    \/ \E id \in SuppliedIDs, prefix \in SpPrefixes : FdbCreateServicePoint(id, prefix) /\ UNCHANGED extVars
    \/ \E id \in SuppliedIDs, prefix \in SpPrefixes : SqlCreateServicePoint(id, prefix) /\ UNCHANGED extVars
    \/ \E id \in SpKeys, prefix \in SpPrefixes : FileUpdateServicePoint(id, prefix) /\ UNCHANGED extVars
    \/ \E id \in SpKeys, prefix \in SpPrefixes : FdbUpdateServicePoint(id, prefix) /\ UNCHANGED extVars
    \/ \E id \in SpKeys, prefix \in SpPrefixes : SqlUpdateServicePoint(id, prefix) /\ UNCHANGED extVars
    \/ \E id \in SpKeys : FileDeleteServicePoint(id) /\ UNCHANGED extVars
    \/ \E id \in SpKeys : FdbDeleteServicePoint(id) /\ UNCHANGED extVars
    \/ \E id \in SpKeys : SqlDeleteServicePoint(id) /\ UNCHANGED extVars

SpecSp == Init /\ [][NextSp]_vars

\* C34: on every driver, GetServicePoint of an id that is not stored returns
\* ErrNotFound, and an UpdateServicePoint or DeleteServicePoint call on an id
\* that is not stored returns ErrNotFound and leaves the service points as
\* they were.
C34_AbsentServicePointNotFound ==
    [][\A id \in SpKeys :
          /\ ~sps'[id].present => GetServicePoint(id)'.err = ErrNotFound
          /\ (/\ mlast'.op \in {"updateSP", "deleteSP"}
              /\ mlast'.id = id
              /\ ~sps[id].present)
             => (mlast'.err = ErrNotFound /\ sps' = sps)]_vars

\* ---------------------------------------------------------------------------
\* Service points and the records of their prefix
\* ---------------------------------------------------------------------------

\* Records of the pair under the default prefix are created, updated and
\* deleted while service points with that prefix are created and deleted.
NextOwner ==
    \/ \E c \in MetaCalls("create") : ApplyCall(c) /\ UNCHANGED <<concVars, mintVars, extVars>>
    \/ \E c \in MetaCalls("update") : ApplyCall(c) /\ UNCHANGED <<concVars, mintVars, extVars>>
    \/ \E c \in MetaCalls("delete") : ApplyCall(c) /\ UNCHANGED <<concVars, mintVars, extVars>>
    \/ FileCreateServicePoint(0, DefaultPrefix) /\ UNCHANGED extVars
    \/ FdbCreateServicePoint(0, DefaultPrefix) /\ UNCHANGED extVars
    \/ SqlCreateServicePoint(0, DefaultPrefix) /\ UNCHANGED extVars
    \/ \E id \in SpKeys : FileDeleteServicePoint(id) /\ UNCHANGED extVars
    \/ \E id \in SpKeys : FdbDeleteServicePoint(id) /\ UNCHANGED extVars
    \/ \E id \in SpKeys : SqlDeleteServicePoint(id) /\ UNCHANGED extVars

SpecOwner == Init /\ [][NextOwner]_vars

\* C35: on every driver, after a DeleteServicePoint call GetRAiD,
\* GetRAiDVersion, GetRAiDHistory and ListRAiDs (the whole list, with and
\* without a contributor and an organisation named) return for every pair
\* what they returned before it, the pairs under the prefix of the deleted
\* service point included.
C35_DeleteServicePointKeepsRecords ==
    [][(mlast'.op = "deleteSP" /\ (mlast' # mlast \/ sps' # sps))
       => /\ \A p \in Pairs :
                /\ GetRAiD(p)' = GetRAiD(p)
                /\ GetRAiDHistory(p)' = GetRAiDHistory(p)
                /\ \A v \in Versions : GetRAiDVersion(p, v)' = GetRAiDVersion(p, v)
          /\ \A filter \in {f \in Filters : f.offset = 0 /\ f.limit = 0} :
                ListRAiDs(filter)' = ListRAiDs(filter)]_vars

\* A service point with the prefix of a stored record of two versions has
\* been deleted.
C35_Witness ==
    /\ mlast.op = "deleteSP"
    /\ mlast.err = Ok
    /\ \E p \in Pairs :
          /\ p[1] = DefaultPrefix
          /\ GetRAiD(p).err = Ok
          /\ Len(GetRAiDHistory(p).raids) >= 2

\* C36: on every driver, the service point GetServicePoint(id) returns has
\* the id it was asked for; so the id CreateServicePoint returned leads to a
\* service point with that id.
C36_GetReturnsTheIdAsked ==
    \A id \in SpKeys :
        GetServicePoint(id).err = Ok => GetServicePoint(id).sp.id = id

\* ---------------------------------------------------------------------------
\* CreateRAiD without an identifier
\* ---------------------------------------------------------------------------

\* fmt.Sprintf("%d", counter) as a string, for the counters of one digit (the
\* counters of the model stay below 10).
FormatSuffix(counter) ==
    <<"1", "2", "3", "4", "5", "6", "7", "8", "9">>[counter]

\* The pairs a generated identifier can name under the default prefix.
MintedPairs == {<<DefaultPrefix, FormatSuffix(n)>> : n \in 1..MaxMints}

\* The fdb or the sql driver over empty stores whose pairs are the pairs a
\* generated identifier can name.
InitAuto ==
    /\ driver \in {"fdb", "cockroach"}
    /\ fsCur = [p \in MintedPairs |-> NoRec]
    /\ fsDel = [p \in MintedPairs |-> NoRec]
    /\ fsHist = [p \in MintedPairs |-> [v \in Versions |-> NoRec]]
    /\ kvCur = [p \in MintedPairs |-> NoRec]
    /\ kvDel = [p \in MintedPairs |-> NoRec]
    /\ kvVer = [p \in MintedPairs |-> [v \in Versions |-> NoRec]]
    /\ sqlRows = [p \in MintedPairs |-> [v \in Versions |-> NoRow]]
    /\ last = NoCall
    /\ life = [p \in MintedPairs |-> NoLife]
    /\ workers = [w \in Workers |-> Idle]
    /\ base = [p \in Pairs |-> [current |-> 0, versions |-> {}]]
    /\ issued = [p \in Pairs |-> {}]
    /\ sps = [k \in SpKeys |-> NoSp]
    /\ spCounter = 0
    /\ raidCounter = [key \in CounterKeys |-> 0]
    /\ now = 1
    /\ mlast = NoMint
    /\ minted = <<>>
    /\ GitIdle /\ ReplayIdle /\ LockIdle /\ HttpIdle /\ MetaIdle

\* FDBStorage.CreateRAiD of a payload without an identifier and without an
\* owner: GenerateIdentifier(0) in a transaction of its own, then the create
\* under the identifier generated.
FdbCreateRAiDMinted(body) ==
    /\ driver = "fdb"
    /\ LET prefix == ResolvePrefix(0)
           counter == raidCounter[counterKey(prefix)] + 1
       IN  /\ counter <= MaxMints
           /\ raidCounter' = [raidCounter EXCEPT ![counterKey(prefix)] = counter]
           /\ Minted(0, prefix, counter)
           /\ FdbCreateRAiD(<<prefix, FormatSuffix(counter)>>, body, 0)
    /\ UNCHANGED <<concVars, sps, spCounter, now>>

\* CockroachStorage.CreateRAiD of a payload without an identifier and
\* without an owner, likewise.
SqlCreateRAiDMinted(body) ==
    /\ driver = "cockroach"
    /\ LET prefix == ResolvePrefix(0)
           value == IF raidCounter[counterName(prefix)] = 0
                    THEN 1 ELSE raidCounter[counterName(prefix)]
       IN  /\ value < MaxMints
           /\ raidCounter' = [raidCounter EXCEPT ![counterName(prefix)] = value + 1]
           /\ Minted(0, prefix, value + 1)
           /\ SqlCreateRAiD(<<prefix, FormatSuffix(value + 1)>>, body, 0)
    /\ UNCHANGED <<concVars, sps, spCounter, now>>

\* Records are created with an identifier and without one, and deleted.
NextAuto ==
    \/ \E p \in MintedPairs : FdbCreateRAiD(p, "docA", 0) /\ UNCHANGED <<concVars, mintVars, extVars>>
    \/ \E p \in MintedPairs : SqlCreateRAiD(p, "docA", 0) /\ UNCHANGED <<concVars, mintVars, extVars>>
    \/ \E p \in MintedPairs : FdbDeleteRAiD(p) /\ UNCHANGED <<concVars, mintVars, extVars>>
    \/ \E p \in MintedPairs : SqlDeleteRAiD(p) /\ UNCHANGED <<concVars, mintVars, extVars>>
    \/ FdbCreateRAiDMinted("docB") /\ UNCHANGED extVars
    \/ SqlCreateRAiDMinted("docB") /\ UNCHANGED extVars

SpecAuto == InitAuto /\ [][NextAuto]_vars

\* C37: on the fdb and the sql driver a CreateRAiD call whose payload has no
\* identifier never returns ErrAlreadyExists, whatever records were created
\* before it under identifiers the callers chose.
C37_MintedCreateNeverExists ==
    [][minted' # minted => last'.err # ErrAlreadyExists]_vars

\* ---------------------------------------------------------------------------
\* Identifier.ID of the stored records
\* ---------------------------------------------------------------------------

\* fmt.Sprintf("https://raid.org/%s/%s", prefix, suffix), as the parts that
\* strings.Split(id, "/") yields.
FormatID(p) == <<"https:", "", "raid.org", p[1], p[2]>>

\* parseRAiDIdentifier: parts[3] and parts[4] of strings.Split(id, "/");
\* an error (here the empty tuple) when there are fewer than five parts.
parseRAiDIdentifier(id) == IF Len(id) < 5 THEN <<>> ELSE <<id[4], id[5]>>

\* Identifier.ID of the payload of an update: none, the identifier of the
\* pair the call names, or the identifier of another pair.
PayloadIDs(p) == {<<>>, FormatID(p), FormatID(<<p[1], "y">>)}

\* The call c on the selected driver, its payload carrying Identifier.ID id:
\* CreateRAiD stores the payload under the pair parsed from its identifier;
\* UpdateRAiD stores the payload under the pair of the call and sets its
\* version and Metadata only; DeleteRAiD of the file and the fdb driver takes
\* the current record away.
IdentCall(c, id) ==
    /\ c.op = "create" => parseRAiDIdentifier(id) = c.pair
    /\ ApplyCall(c)
    /\ named' =
          IF last'.err # Ok THEN named
          ELSE IF c.op = "delete"
               THEN IF driver = "cockroach" THEN named
                    ELSE [named EXCEPT ![c.pair] = <<>>]
          ELSE [named EXCEPT ![c.pair] = id]
    /\ UNCHANGED <<concVars, mintVars, gitVars, round, outs, lockVars, httpVars, created,
                   treeVars, assigned>>

NextIdent ==
    \/ \E c \in MetaCalls("create") : IdentCall(c, FormatID(c.pair))
    \/ \E c \in MetaCalls("update") : \E id \in PayloadIDs(c.pair) : IdentCall(c, id)
    \/ \E c \in MetaCalls("delete") : IdentCall(c, <<>>)

SpecIdent == Init /\ [][NextIdent]_vars

\* C38: on every driver, the record GetRAiD returns for a pair carries the
\* identifier of that pair: no call stores under a pair a record that names
\* another pair.
C38_CurrentNamesItsPair ==
    \A p \in Pairs : GetRAiD(p).err = Ok => named[p] = FormatID(p)

\* ---------------------------------------------------------------------------
\* Concurrent calls of the git overlay
\* ---------------------------------------------------------------------------

\* A file below the data directory: the current file of a pair, its
\* .deleted file, or the history file of one of its versions (version 0 for
\* the first two).
TreeFile(kind, p, v) == [kind |-> kind, pair |-> p, version |-> v]

\* The files of the data directory as they are now.
WorkTree == [cur |-> fsCur, del |-> fsDel, hist |-> fsHist]

\* "git add -A" stages every file of the data directory that differs from
\* the last commit, whichever call wrote it.
ChangedFiles(old, new) ==
    {TreeFile("cur", p, 0) : p \in {q \in Pairs : old.cur[q] # new.cur[q]}}
    \cup {TreeFile("del", p, 0) : p \in {q \in Pairs : old.del[q] # new.del[q]}}
    \cup {TreeFile("hist", x[1], x[2]) :
             x \in {y \in Pairs \X Versions : old.hist[y[1]][y[2]] # new.hist[y[1]][y[2]]}}

\* The files the call named in a commit message writes: CreateRAiD the
\* current file, UpdateRAiD the history file of the version it replaces and
\* the current file.
OpFiles(message) ==
    CASE message.op = "Create RAiD" -> {TreeFile("cur", message.pair, 0)}
      [] message.op = "Update RAiD" ->
            {TreeFile("hist", message.pair, message.version - 1),
             TreeFile("cur", message.pair, 0)}
      [] OTHER -> {}

\* The first half of a mutating method of GitStorage in worker w: the
\* wrapped FileStorage method from fs.mu.Lock() to its deferred Unlock().
\* When it failed the method returns; otherwise the commit is still to make.
GitWrapped(w, message) ==
    /\ gitPend[w] = NoCommit
    /\ gitPend' = [gitPend EXCEPT ![w] =
                     IF last'.err = Ok /\ autoCommit
                     THEN [message EXCEPT !.version =
                              IF message.op = "Update RAiD" THEN last'.version ELSE 0]
                     ELSE NoCommit]
    /\ UNCHANGED <<gitTree, gitLog, gitVars>>

\* GitStorage.CreateRAiD up to the return of FileStorage.CreateRAiD
GitCreateRAiDWrapped(w, p, body) ==
    /\ FileCreateRAiD(p, body, 0)
    /\ GitWrapped(w, [op |-> "Create RAiD", pair |-> p, version |-> 0])

\* GitStorage.UpdateRAiD up to the return of FileStorage.UpdateRAiD
GitUpdateRAiDWrapped(w, p, body) ==
    /\ FileUpdateRAiD(p, body)
    /\ GitWrapped(w, [op |-> "Update RAiD", pair |-> p, version |-> 0])

\* The second half, outside fs.mu: gs.gitCommit(commitMsg).  "git commit"
\* fails with "nothing to commit" when nothing is staged, which gitCommit
\* turns into nil; no commit is made then.
GitCommitPending(w) ==
    /\ gitPend[w] # NoCommit
    /\ LET files == ChangedFiles(gitTree, WorkTree) IN
       /\ gitCommit(gitPend[w], files # {})
       /\ gitLog' = IF files = {} THEN gitLog
                    ELSE Append(gitLog, [message |-> gitPend[w], files |-> files])
       /\ gitTree' = WorkTree
    /\ gitPend' = [gitPend EXCEPT ![w] = NoCommit]
    /\ UNCHANGED <<raidVars, driver, autoCommit, gitLast>>

\* The git overlay with auto-commit on over an empty data directory.
InitGitConc == Init /\ driver = "file"

\* Create and update calls of the request workers, concurrently.
NextGitConc ==
    \/ \E w \in Workers, p \in Pairs, body \in Bodies :
           GitCreateRAiDWrapped(w, p, body)
              /\ UNCHANGED <<concVars, mintVars, round, outs, lockVars, httpVars,
                             created, named, assigned>>
    \/ \E w \in Workers, p \in Pairs, body \in Bodies :
           GitUpdateRAiDWrapped(w, p, body)
              /\ UNCHANGED <<concVars, mintVars, round, outs, lockVars, httpVars,
                             created, named, assigned>>
    \/ \E w \in Workers :
           GitCommitPending(w)
              /\ UNCHANGED <<concVars, mintVars, round, outs, lockVars, httpVars,
                             created, named, assigned>>

SpecGitConc == InitGitConc /\ [][NextGitConc]_vars

\* C39: with auto-commit on and git working, the commit step of every
\* successful mutating call of the git overlay adds exactly one commit,
\* whose message names the call and whose files are exactly the files that
\* call wrote, also when several calls run concurrently.
C39_OneCommitPerCall ==
    [][\A w \in Workers :
          (gitPend[w] # NoCommit /\ gitPend'[w] = NoCommit) =>
              gitLog' = Append(gitLog, [message |-> gitPend[w],
                                        files |-> OpFiles(gitPend[w])])]_vars

\* ---------------------------------------------------------------------------
\* The local-file driver restarted over its data directory
\* ---------------------------------------------------------------------------

\* The greatest element of a non-empty set of numbers.
MaxOf(S) == CHOOSE m \in S : \A n \in S : n <= m

\* FileStorage.loadMaxServicePointID: the greatest id among the stored
\* service points, and 1000 when none is greater.
loadMaxServicePointID ==
    MaxOf({IdCounterStart} \cup {sps[k].id : k \in {j \in SpKeys : sps[j].present}})

\* file.New over the data directory of an earlier FileStorage: the files stay
\* and fs.idCounter is loaded from the stored service points.
FileNew ==
    /\ driver = "file"
    /\ spCounter' = loadMaxServicePointID
    /\ mlast' = MintCall("new", 0, Ok, 0, "", 0)
    /\ UNCHANGED <<driver, raidVars, concVars, sps, raidCounter, now, minted, assigned>>

\* FileStorage.CreateServicePoint, the id it returns being remembered when
\* it came from fs.idCounter.
FileCreateServicePointAssigned(id, prefix) ==
    /\ id = 0 => Len(assigned) <= MaxServicePoints
    /\ FileCreateServicePoint(id, prefix)
    /\ assigned' = IF id = 0 /\ mlast'.err = Ok
                   THEN Append(assigned, mlast'.spID) ELSE assigned

\* Service points are created and deleted, and the driver is constructed
\* again over the same directory.
NextRestart ==
    \/ \E id \in SuppliedIDs :
           FileCreateServicePointAssigned(id, DefaultPrefix)
              /\ UNCHANGED <<gitVars, round, outs, lockVars, httpVars, created, named, treeVars>>
    \/ \E id \in SpKeys :
           FileDeleteServicePoint(id)
              /\ UNCHANGED <<gitVars, round, outs, lockVars, httpVars, metaVars>>
    \/ FileNew
          /\ UNCHANGED <<gitVars, round, outs, lockVars, httpVars, created, named, treeVars>>

\* file.New over an empty data directory.
InitRestart == Init /\ driver = "file"

SpecRestart == InitRestart /\ [][NextRestart]_vars

\* C40: every id the local-file driver assigns to a service point created
\* without one is greater than 1000, and no id is assigned twice, across
\* any sequence of createIssuingPoint, deleteIssuingPoint and restarts of
\* the driver over the same data directory.
C40_AssignedIdsNeverRepeat ==
    \A i \in DOMAIN assigned :
        /\ assigned[i] > IdCounterStart
        /\ \A j \in DOMAIN assigned : i # j => assigned[i] # assigned[j]

====
